---- MODULE Spec2Model ----
(***************************************************************************)
(* A model of the grouping core of ize (backend/internal/ize): the greedy  *)
(* faceting engine ProcessRipper and the clustering pipeline ProcessCluster *)
(* with its rule fitter.                                                   *)
(*                                                                         *)
(* Conventions.  Go strings are sequences of byte codes, so that           *)
(* fmt.Sprintf("%s:%s", ..), parseFacetKey and the < of strings are        *)
(* computed and not assumed.  Slices are sequences; Go's 0-based item      *)
(* index i is the 1-based index i+1 here.  A Result is named by the index  *)
(* of the hit it was copied from.  float64 values are exact rationals      *)
(* (numerator, denominator) or, for the entropy gain, fixed-point numbers  *)
(* over a table of log2; the rounding of float64 is not modelled.  The     *)
(* order in which Go ranges over a map is unspecified: every scan of a map *)
(* runs over an order that the action chooses.                             *)
(***************************************************************************)
EXTENDS Integers, Sequences, FiniteSets, TLC

VARIABLES
    algoliaResults,       \* the input of ProcessRipper / ProcessCluster
    pc,                   \* position of the running entry point
    iteration,            \* ProcessRipper: loop counter
    selectedGroups,       \* ProcessRipper: []RipperGroup
    selectedFacetValues,  \* ProcessRipper: set of <<facetName, facetValue>>
    assignedItems,        \* ProcessRipper: set of assigned item indices
    ripperResult,         \* ProcessRipper: the returned *RipperResult and error
    optimalK,             \* ProcessCluster: the k of selectOptimalK
    clusterAssignments,   \* ProcessCluster: the assignments of selectOptimalK
    silhouetteScores,     \* ProcessCluster: the scores by k of selectOptimalK
    groups,               \* ProcessCluster: []ClusterGroup
    otherItems,           \* ProcessCluster: the items of Other
    clusterResult,        \* ProcessCluster: the returned *ClusterResult and error
    fitPositives,         \* fitDecisionList: the input positive set
    fitCorpus,            \* fitDecisionList: the input corpus
    fitResult,            \* fitDecisionList: the returned rule and quality
    ruleArg,              \* DecisionList methods: the receiver
    facetSetArg,          \* DecisionList.Matches: the facet set
    ruleReturn,           \* DecisionList methods: the call made and its value
    simFacetSets,         \* similarity and dendrogram functions: the facet sets
    simReturn,            \* similarity and dendrogram functions: the call and its value
    groupNames,           \* HandleCluster: the Name of each group of clusterResult
    anthropicClient,      \* HandleCluster: whether h.anthropicClient is set
    goroutines,           \* GenerateClusterNames: the indices whose goroutine runs
    resultCh,             \* GenerateClusterNames: the results in the channel
    labelResults,         \* GenerateClusterNames: the results slice
    labelReceived         \* GenerateClusterNames: the results received so far

ripperVars == <<iteration, selectedGroups, selectedFacetValues, assignedItems, ripperResult>>
clusterVars == <<optimalK, clusterAssignments, silhouetteScores, groups, otherItems, clusterResult>>
fitVars == <<fitPositives, fitCorpus, fitResult>>
ruleVars == <<ruleArg, facetSetArg, ruleReturn>>
simVars == <<simFacetSets, simReturn>>
labelVars == <<groupNames, anthropicClient, goroutines, resultCh, labelResults, labelReceived>>
libVars == <<ruleVars, simVars, labelVars>>

vars == <<algoliaResults, pc, ripperVars, clusterVars, fitVars, libVars>>

-----------------------------------------------------------------------------
(* Bounds *)

\* most hits in an input of the general specifications
MaxHits == 4
\* most hits in an input of the wide faceting specification
MaxWideHits == 12
\* most hits in an input of the specification of selectOptimalK
MaxMatrixHits == 8
\* most items of the fitting corpus with all facets, a missing facet, no facet
MaxBulk == 8
MaxRare == 1
MaxPad == 3

-----------------------------------------------------------------------------
(* Strings *)

StrEmpty == << >>
StrTag == <<116, 97, 103>>
StrKind == <<107>>
StrX == <<120>>
StrY == <<121>>
\* the value "o<i>" that only hit i carries
StrOwn(i) == <<111, 48 + i>>

\* fmt.Sprintf("%s:%s", facetName, value)
FacetKey(facetName, value) == facetName \o <<58>> \o value

\* the < of Go strings: byte-wise lexicographic order
RECURSIVE StrLess(_, _)
StrLess(s, t) ==
    IF t = << >> THEN FALSE
    ELSE IF s = << >> THEN TRUE
    ELSE IF Head(s) # Head(t) THEN Head(s) < Head(t)
    ELSE StrLess(Tail(s), Tail(t))

\* a set of strings as the sequence sorted by <
RECURSIVE SortedStrings(_)
SortedStrings(S) ==
    IF S = {} THEN << >>
    ELSE LET m == CHOOSE x \in S : \A y \in S \ {x} : StrLess(x, y)
         IN  <<m>> \o SortedStrings(S \ {m})

Reverse(s) == [i \in 1..Len(s) |-> s[Len(s) + 1 - i]]
Rotate(s, r) == [i \in 1..Len(s) |-> s[((i - 1 + r) % Len(s)) + 1]]

\* Orders in which a range over a Go map with the keys S may run.  The scans of
\* this program keep the first key met among those no other key replaces, so the
\* rotations of one order and their reverses give every result a range can give.
RangeOrderAt(S, r, rev) ==
    IF S = {} THEN << >>
    ELSE LET base == SortedStrings(S)
             rot == Rotate(base, r % Len(base))
         IN  IF rev THEN Reverse(rot) ELSE rot

RangeOrders(S) ==
    { RangeOrderAt(S, r, rev) :
        r \in 0..(IF S = {} THEN 0 ELSE Cardinality(S) - 1), rev \in BOOLEAN }

SeqToSet(s) == {s[i] : i \in 1..Len(s)}

RECURSIVE SumSeq(_)
SumSeq(s) == IF s = << >> THEN 0 ELSE Head(s) + SumSeq(Tail(s))

-----------------------------------------------------------------------------
(* The input: algolia.SearchResult and algolia.Hit *)

\* values of the map[string]interface{} of a hit
StringVal(s) == [kind |-> "string", str |-> s, elems |-> << >>]
ArrayVal(es) == [kind |-> "array", str |-> StrEmpty, elems |-> es]
NumberVal == [kind |-> "number", str |-> StrEmpty, elems |-> << >>]
\* elements of a []interface{}
StrElem(s) == [isString |-> TRUE, str |-> s]
NumElem == [isString |-> FALSE, str |-> StrEmpty]

\* hit.Facets == nil
NilFacets == [isNil |-> TRUE, m |-> << >>]
FacetsOf(m) == [isNil |-> FALSE, m |-> m]

Hit(i, facets) == [ObjectID |-> i, Facets |-> facets]

\* the facet maps hit i is given in the general specifications
HitChoices(i) ==
    { NilFacets,
      FacetsOf(StrTag :> StringVal(StrX)),
      FacetsOf(StrTag :> StringVal(StrY)),
      FacetsOf(StrTag :> ArrayVal(<<StrElem(StrX), StrElem(StrY)>>)),
      FacetsOf(StrTag :> ArrayVal(<<StrElem(StrX), StrElem(StrX)>>)),
      FacetsOf(StrTag :> ArrayVal(<<NumElem, StrElem(StrY)>>) @@ StrKind :> NumberVal),
      FacetsOf(StrTag :> StringVal(StrX) @@ StrKind :> StringVal(StrY)) }

\* the facet maps hit i is given in the wide faceting specification: hits 2k-1
\* and 2k share the value k of their own, which hit 2k-1 may lack
WideHitChoices(i) ==
    IF i % 2 = 0
    THEN { FacetsOf(StrTag :> StringVal(StrOwn(i \div 2))) }
    ELSE { NilFacets, FacetsOf(StrTag :> StringVal(StrOwn((i + 1) \div 2))) }

\* SearchResult.Facets: nil, or the counts of the whole result set
NilCounts == [isNil |-> TRUE, m |-> << >>]
CountsChoices ==
    { NilCounts,
      [isNil |-> FALSE, m |-> (StrTag :> (StrX :> 9))] }

NilResults == [isNil |-> TRUE, Hits |-> << >>, Facets |-> NilCounts]
Results(hits, counts) == [isNil |-> FALSE, Hits |-> hits, Facets |-> counts]

\* the hit sequences of length n
RECURSIVE GeneralHitSeqs(_)
GeneralHitSeqs(n) ==
    IF n = 0 THEN { << >> }
    ELSE { Append(h, Hit(n, f)) : h \in GeneralHitSeqs(n - 1), f \in HitChoices(n) }

RECURSIVE WideHitSeqs(_)
WideHitSeqs(n) ==
    IF n = 0 THEN { << >> }
    ELSE { Append(h, Hit(n, f)) : h \in WideHitSeqs(n - 1), f \in WideHitChoices(n) }

GeneralInputs ==
    {NilResults} \cup
    { Results(h, c) : h \in UNION {GeneralHitSeqs(n) : n \in 0..MaxHits},
                      c \in CountsChoices }

WideInputs ==
    { Results(h, NilCounts) : h \in UNION {WideHitSeqs(n) : n \in 0..MaxWideHits} }

-----------------------------------------------------------------------------
(* ProcessRipper: the greedy faceting engine *)

\* the values []string that the type switch extracts from one facet value
RawStrings(raw) ==
    IF raw.kind = "string" THEN <<raw.str>>
    ELSE IF raw.kind = "array"
         THEN LET strs == SelectSeq(raw.elems, LAMBDA e : e.isString)
              IN  [j \in 1..Len(strs) |-> strs[j].str]
         ELSE << >>

\* the values hit carries for facetName, in the order the hit lists them
hitValues(hit, facetName) ==
    IF hit.Facets.isNil \/ facetName \notin DOMAIN hit.Facets.m THEN << >>
    ELSE RawStrings(hit.Facets.m[facetName])

Occurrences(s, v) == Cardinality({j \in 1..Len(s) : s[j] = v})

\* facetValueMap[facetName][value]: the index of a hit once per listing of value
RECURSIVE valueIndices(_, _, _, _)
valueIndices(hits, facetName, value, i) ==
    IF i > Len(hits) THEN << >>
    ELSE [j \in 1..Occurrences(hitValues(hits[i], facetName), value) |-> i]
         \o valueIndices(hits, facetName, value, i + 1)

facetValueMap(hits) ==
    LET names == { f \in UNION {DOMAIN hits[i].Facets.m : i \in 1..Len(hits)} :
                     \E i \in 1..Len(hits) :
                        /\ f \in DOMAIN hits[i].Facets.m
                        /\ hits[i].Facets.m[f].kind \in {"string", "array"} }
        valuesOf(f) == UNION { SeqToSet(hitValues(hits[i], f)) : i \in 1..Len(hits) }
    IN  [f \in names |-> [v \in valuesOf(f) |-> valueIndices(hits, f, v, 1)]]

\* initialCounts[facetName][value] = len(indices)
initialCounts(fvm) == [f \in DOMAIN fvm |-> [v \in DOMAIN fvm[f] |-> Len(fvm[f][v])]]

\* max(ceil(totalItems * 0.05), 2)
minGroupSize(totalItems) ==
    LET c == (totalItems + 19) \div 20
    IN  IF c < 2 THEN 2 ELSE c

\* the loop bound of the greedy selection
\* the loop bound raised by one
maxIterationsPlusOne == 5 + 1

maxIterations == 5

\* math.Inf(-1) on the scale of the gains, which are never negative
NegInf == -1

\* 10000 * log2(n), n = 1..16
Log2Table == <<0, 10000, 15850, 20000, 23219, 25850, 28074, 30000,
               31699, 33219, 34594, 35850, 37004, 38074, 39069, 40000>>

\* gain = entropySplit * p * (1 - ratio), ratio = p/t, on the scale 10000 * t * t:
\* t * t * gain = p * (t - p) * (t*log2(t) - p*log2(p) - (t-p)*log2(t-p)).
\* All the gains one scan compares have the same t.
\* A value that one hit lists twice is counted twice in p, so p may exceed t: then
\* ratio > 1, math.Log2(1 - ratio) is NaN and so is the gain.
GainIsNaN(p, t) == p # 0 /\ t # 0 /\ p # t /\ p > t

Gain(p, t) ==
    IF p = 0 \/ t = 0 \/ p = t \/ GainIsNaN(p, t) THEN 0
    ELSE p * (t - p) * (t * Log2Table[t] - p * Log2Table[p] - (t - p) * Log2Table[t - p])

NoBest == [bestFacetName |-> StrEmpty, bestFacetValue |-> StrEmpty,
           bestGain |-> NegInf, bestIndices |-> << >>]

\* a loop body that keeps the first pair met among those of the highest gain
ScanStepFirstMet(best, fvm, facetName, value, selected, assigned, t, minSize) ==
    IF <<facetName, value>> \in selected THEN best
    ELSE LET unassignedIndices == SelectSeq(fvm[facetName][value], LAMBDA idx : idx \notin assigned)
             p == Len(unassignedIndices)
             gain == Gain(p, t)
         IN  IF p < minSize THEN best
             ELSE IF GainIsNaN(p, t) THEN best
             ELSE IF gain > best.bestGain
                  THEN [bestFacetName |-> facetName, bestFacetValue |-> value,
                        bestGain |-> gain, bestIndices |-> unassignedIndices]
                  ELSE best

\* a loop body that takes of a value the items of the minimum size only
ScanStepMinimumOnly(best, fvm, facetName, value, selected, assigned, t, minSize) ==
    IF <<facetName, value>> \in selected THEN best
    ELSE LET unassignedIndices == SelectSeq(fvm[facetName][value], LAMBDA idx : idx \notin assigned)
             p == Len(unassignedIndices)
             gain == Gain(p, t)
         IN  IF p < minSize THEN best
             ELSE IF GainIsNaN(p, t) THEN best
             ELSE IF \/ gain > best.bestGain
                     \/ /\ gain = best.bestGain
                        /\ \/ p > Len(best.bestIndices)
                           \/ /\ p = Len(best.bestIndices)
                              /\ StrLess(FacetKey(facetName, value),
                                         FacetKey(best.bestFacetName, best.bestFacetValue))
                  THEN [bestFacetName |-> facetName, bestFacetValue |-> value,
                        bestGain |-> gain, bestIndices |-> SubSeq(unassignedIndices, 1, minSize)]
                  ELSE best

\* the body of the two nested range loops for one (facetName, value)
ScanStep(best, fvm, facetName, value, selected, assigned, t, minSize) ==
    IF <<facetName, value>> \in selected THEN best
    ELSE LET unassignedIndices == SelectSeq(fvm[facetName][value], LAMBDA idx : idx \notin assigned)
             p == Len(unassignedIndices)
             gain == Gain(p, t)
         IN  IF p < minSize THEN best
             \* every comparison with a NaN gain is false
             ELSE IF GainIsNaN(p, t) THEN best
             ELSE IF \/ gain > best.bestGain
                     \/ /\ gain = best.bestGain
                        /\ \/ p > Len(best.bestIndices)
                           \/ /\ p = Len(best.bestIndices)
                              /\ StrLess(FacetKey(facetName, value),
                                         FacetKey(best.bestFacetName, best.bestFacetValue))
                  THEN [bestFacetName |-> facetName, bestFacetValue |-> value,
                        bestGain |-> gain, bestIndices |-> unassignedIndices]
                  ELSE best

RECURSIVE ScanFacetValues(_, _, _, _, _, _, _)
ScanFacetValues(best, fvm, order, selected, assigned, t, minSize) ==
    IF order = << >> THEN best
    ELSE ScanFacetValues(
             ScanStep(best, fvm, Head(order)[1], Head(order)[2], selected, assigned, t, minSize),
             fvm, Tail(order), selected, assigned, t, minSize)

\* the (facetName, value) pairs in an order the nested ranges may visit them
RECURSIVE FlattenPairs(_, _, _, _)
FlattenPairs(fvm, nameOrder, r, rev) ==
    IF nameOrder = << >> THEN << >>
    ELSE LET f == Head(nameOrder)
             vs == RangeOrderAt(DOMAIN fvm[f], r, rev)
         IN  [j \in 1..Len(vs) |-> <<f, vs[j]>>] \o FlattenPairs(fvm, Tail(nameOrder), r, rev)

MaxValueCount(fvm) ==
    LET sizes == {Cardinality(DOMAIN fvm[f]) : f \in DOMAIN fvm} \cup {1}
    IN  CHOOSE m \in sizes : \A k \in sizes : k <= m

PairOrders(fvm) ==
    { FlattenPairs(fvm, no, r, rev) :
        no \in RangeOrders(DOMAIN fvm), r \in 0..(MaxValueCount(fvm) - 1), rev \in BOOLEAN }

\* totalCount: Algolia's count of the value when the input has one
totalCount(results, fvm, facetName, value) ==
    IF /\ ~results.Facets.isNil
       /\ facetName \in DOMAIN results.Facets.m
       /\ value \in DOMAIN results.Facets.m[facetName]
    THEN results.Facets.m[facetName][value]
    ELSE initialCounts(fvm)[facetName][value]

RipperGroup(facetName, value, items, total) ==
    [FacetName |-> facetName, FacetValue |-> value, Items |-> items, TotalCount |-> total]

NoResult == [returned |-> FALSE, Groups |-> << >>, OtherGroup |-> << >>, err |-> "nil"]

\* entry of ProcessRipper: the empty-input return, or the start of the loop
ProcessRipperStart ==
    /\ pc = "ripper"
    /\ IF algoliaResults.isNil \/ Len(algoliaResults.Hits) = 0
       THEN /\ ripperResult' = [returned |-> TRUE, Groups |-> << >>,
                                OtherGroup |-> << >>, err |-> "nil"]
            /\ pc' = "done"
       ELSE /\ ripperResult' = ripperResult
            /\ pc' = "ripperLoop"
    /\ UNCHANGED <<algoliaResults, iteration, selectedGroups, selectedFacetValues, assignedItems,
                   clusterVars, fitVars, libVars>>

\* one pass of the for loop: its condition, the two breaks, or a recorded group
RipperIteration ==
    /\ pc = "ripperLoop"
    /\ LET hits == algoliaResults.Hits
           totalItems == Len(hits)
           fvm == facetValueMap(hits)
           minSize == minGroupSize(totalItems)
           totalUnassigned == totalItems - Cardinality(assignedItems)
       IN  IF iteration >= maxIterations \/ totalUnassigned < minSize
           THEN /\ pc' = "ripperOther"
                /\ UNCHANGED <<iteration, selectedGroups, selectedFacetValues, assignedItems>>
           ELSE \E order \in PairOrders(fvm) :
                  LET best == ScanFacetValues(NoBest, fvm, order, selectedFacetValues,
                                              assignedItems, totalUnassigned, minSize)
                  IN  IF best.bestFacetName = StrEmpty \/ Len(best.bestIndices) = 0
                      THEN /\ pc' = "ripperOther"
                           /\ UNCHANGED <<iteration, selectedGroups, selectedFacetValues,
                                          assignedItems>>
                      ELSE /\ selectedFacetValues' = selectedFacetValues \cup
                                   {<<best.bestFacetName, best.bestFacetValue>>}
                           /\ assignedItems' = assignedItems \cup SeqToSet(best.bestIndices)
                           /\ selectedGroups' = Append(selectedGroups,
                                   RipperGroup(best.bestFacetName, best.bestFacetValue,
                                               best.bestIndices,
                                               totalCount(algoliaResults, fvm,
                                                          best.bestFacetName, best.bestFacetValue)))
                           /\ iteration' = iteration + 1
                           /\ pc' = "ripperLoop"
    /\ UNCHANGED <<algoliaResults, ripperResult, clusterVars, fitVars, libVars>>

\* a return whose Other holds every item
ProcessRipperReturnAllInOther ==
    /\ pc = "ripperOther"
    /\ ripperResult' = [returned |-> TRUE,
                        Groups |-> selectedGroups,
                        OtherGroup |-> [i \in 1..Len(algoliaResults.Hits) |-> i],
                        err |-> "nil"]
    /\ pc' = "done"
    /\ UNCHANGED <<algoliaResults, iteration, selectedGroups, selectedFacetValues, assignedItems,
                   clusterVars, fitVars, libVars>>

\* the Other group and the return
ProcessRipperReturn ==
    /\ pc = "ripperOther"
    /\ ripperResult' = [returned |-> TRUE,
                        Groups |-> selectedGroups,
                        OtherGroup |-> SelectSeq([i \in 1..Len(algoliaResults.Hits) |-> i],
                                                 LAMBDA i : i \notin assignedItems),
                        err |-> "nil"]
    /\ pc' = "done"
    /\ UNCHANGED <<algoliaResults, iteration, selectedGroups, selectedFacetValues, assignedItems,
                   clusterVars, fitVars, libVars>>

\* the variables of ProcessRipper before it runs
RipperIdle ==
    /\ iteration = 0
    /\ selectedGroups = << >>
    /\ selectedFacetValues = {}
    /\ assignedItems = {}
    /\ ripperResult = NoResult

\* the variables of ProcessCluster before it runs
ClusterIdle ==
    /\ optimalK = 0
    /\ clusterAssignments = << >>
    /\ silhouetteScores = << >>
    /\ groups = << >>
    /\ otherItems = << >>
    /\ clusterResult = [returned |-> FALSE, Groups |-> << >>, OtherGroup |-> << >>,
                        ClusterCount |-> 0, err |-> "nil"]

\* the variables of a call of fitDecisionList when there is none
FitIdle ==
    /\ fitPositives = << >>
    /\ fitCorpus = << >>
    /\ fitResult = [returned |-> FALSE, rule |-> [isNil |-> TRUE, Clauses |-> << >>],
                    quality |-> [isNil |-> TRUE, Precision |-> [num |-> 0, den |-> 1],
                                 Recall |-> [num |-> 0, den |-> 1], F1 |-> [num |-> 0, den |-> 1]]]

\* the variables of a call of a DecisionList method when there is none
RuleIdle ==
    /\ ruleArg = [isNil |-> TRUE, Clauses |-> << >>]
    /\ facetSetArg = {}
    /\ ruleReturn = [call |-> "none"]

\* the variables of a call of a similarity or dendrogram function when there is none
SimIdle ==
    /\ simFacetSets = << >>
    /\ simReturn = [call |-> "none"]

\* the variables of the naming step of HandleCluster when there is none
LabelIdle ==
    /\ groupNames = << >>
    /\ anthropicClient = FALSE
    /\ goroutines = {}
    /\ resultCh = << >>
    /\ labelResults = << >>
    /\ labelReceived = << >>

LibIdle == RuleIdle /\ SimIdle /\ LabelIdle

RipperInit ==
    /\ algoliaResults \in GeneralInputs
    /\ pc = "ripper"
    /\ RipperIdle /\ ClusterIdle /\ FitIdle /\ LibIdle

RipperWideInit ==
    /\ algoliaResults \in WideInputs
    /\ pc = "ripper"
    /\ RipperIdle /\ ClusterIdle /\ FitIdle /\ LibIdle

RipperNext == ProcessRipperStart \/ RipperIteration \/ ProcessRipperReturn

\* ProcessRipper on the general inputs
SpecRipper == RipperInit /\ [][RipperNext]_vars

\* ProcessRipper on inputs of up to MaxWideHits hits
SpecRipperWide == RipperWideInit /\ [][RipperNext]_vars

-----------------------------------------------------------------------------
(* float64 values as exact rationals num/den, den > 0, in lowest terms *)

RECURSIVE GCD(_, _)
GCD(a, b) == IF b = 0 THEN a ELSE GCD(b, a % b)

Abs(x) == IF x < 0 THEN -x ELSE x

Rat(n, d) ==
    LET g == GCD(Abs(n), d)
    IN  [num |-> n \div g, den |-> d \div g]

RZero == [num |-> 0, den |-> 1]
ROne == [num |-> 1, den |-> 1]
RAdd(a, b) ==
    LET g == GCD(a.den, b.den)
    IN  Rat(a.num * (b.den \div g) + b.num * (a.den \div g), a.den * (b.den \div g))
RSub(a, b) == RAdd(a, [num |-> -b.num, den |-> b.den])
RLess(a, b) == a.num * b.den < b.num * a.den
RDivInt(a, k) == Rat(a.num, a.den * k)
\* a / b for b > 0
RDiv(a, b) == Rat(a.num * b.den, a.den * b.num)
RMax(a, b) == IF RLess(a, b) THEN b ELSE a

RECURSIVE RSum(_)
RSum(s) == IF s = << >> THEN RZero ELSE RAdd(Head(s), RSum(Tail(s)))

-----------------------------------------------------------------------------
(* Facet sets and the distance matrix *)

\* extractFacetSet with addFacetValues: the tokens "facetName:value" of a hit
extractFacetSet(hit) ==
    IF hit.Facets.isNil THEN {}
    ELSE UNION { { FacetKey(f, v) : v \in SeqToSet(RawStrings(hit.Facets.m[f])) } :
                 f \in DOMAIN hit.Facets.m }

\* extractItemsAndFacets: the facet sets, one per hit; item i is the hit i
extractFacetSets(results) == [i \in 1..Len(results.Hits) |-> extractFacetSet(results.Hits[i])]

\* the check asks for an item, not for a facet of an item
hasAnyFacetsCountsItems(facetSets) == Len(facetSets) > 0

hasAnyFacets(facetSets) == \E i \in 1..Len(facetSets) : facetSets[i] # {}

\* a jaccardDistance for which two empty sets are alike
jaccardDistanceEmptyAlike(a, b) ==
    IF a = {} /\ b = {} THEN RZero
    ELSE LET intersection == Cardinality(a \cap b)
             union == Cardinality(a) + Cardinality(b \ a)
         IN  IF union = 0 THEN ROne
             ELSE RSub(ROne, Rat(intersection, union))

jaccardDistance(a, b) ==
    IF a = {} /\ b = {} THEN ROne
    ELSE LET intersection == Cardinality(a \cap b)
             union == Cardinality(a) + Cardinality(b \ a)
         IN  IF union = 0 THEN ROne
             ELSE RSub(ROne, Rat(intersection, union))

\* a buildDistanceMatrix that computes the diagonal as the rest
buildDistanceMatrixAllComputed(facetSets) ==
    [i \in 1..Len(facetSets) |->
        [j \in 1..Len(facetSets) |->
            IF i <= j THEN jaccardDistance(facetSets[i], facetSets[j])
            ELSE jaccardDistance(facetSets[j], facetSets[i])]]

buildDistanceMatrix(facetSets) ==
    [i \in 1..Len(facetSets) |->
        [j \in 1..Len(facetSets) |->
            IF i = j THEN RZero
            ELSE IF i < j THEN jaccardDistance(facetSets[i], facetSets[j])
            ELSE jaccardDistance(facetSets[j], facetSets[i])]]

-----------------------------------------------------------------------------
(* The dendrogram.  A *clusterNode is an index into the slice clusters; 0 is nil. *)

leafNode(i) == [id |-> i, left |-> 0, right |-> 0, height |-> RZero, members |-> <<i>>]

\* the mean of distMatrix[i][j] over the members i of a and j of b
averageLinkageDistance(a, b, distMatrix) ==
    LET la == Len(a.members)
        lb == Len(b.members)
        count == la * lb
        cross == [k \in 1..count |->
                     distMatrix[a.members[((k - 1) \div lb) + 1]][b.members[((k - 1) % lb) + 1]]]
    IN  RDivInt(RSum(cross), count)

\* the pairs (i, j), i < j, of positions in active, in the order of the two loops
RECURSIVE ActivePairs(_, _, _)
ActivePairs(i, j, m) ==
    IF i >= m THEN << >>
    ELSE IF j > m THEN ActivePairs(i + 1, i + 2, m)
    ELSE <<<<i, j>>>> \o ActivePairs(i, j + 1, m)

\* minDist starts at +Inf: the first pair always replaces it
RECURSIVE ScanClosest(_, _, _, _, _)
ScanClosest(best, pairs, clusters, active, distMatrix) ==
    IF pairs = << >> THEN best
    ELSE LET i == Head(pairs)[1]
             j == Head(pairs)[2]
             dist == averageLinkageDistance(clusters[active[i]], clusters[active[j]], distMatrix)
             next == IF best.isInf \/ RLess(dist, best.minDist)
                     THEN [isInf |-> FALSE, minI |-> i, minJ |-> j, minDist |-> dist]
                     ELSE best
         IN  ScanClosest(next, Tail(pairs), clusters, active, distMatrix)

\* a findClosestClusters that takes the last two active clusters
findClosestClustersLastTwo(clusters, active, distMatrix) ==
    [isInf |-> FALSE, minI |-> Len(active) - 1, minJ |-> Len(active),
     minDist |-> averageLinkageDistance(clusters[active[Len(active) - 1]],
                                        clusters[active[Len(active)]], distMatrix)]

findClosestClusters(clusters, active, distMatrix) ==
    ScanClosest([isInf |-> TRUE, minI |-> 1, minJ |-> 2, minDist |-> RZero],
                ActivePairs(1, 2, Len(active)), clusters, active, distMatrix)

RemoveAt(s, i) == [k \in 1..(Len(s) - 1) |-> IF k < i THEN s[k] ELSE s[k + 1]]

\* the merge loop of agglomerativeCluster
RECURSIVE mergeClusters(_, _, _)
mergeClusters(clusters, active, distMatrix) ==
    IF Len(active) <= 1 THEN [nodes |-> clusters, root |-> active[1]]
    ELSE LET c == findClosestClusters(clusters, active, distMatrix)
             leftCluster == clusters[active[c.minI]]
             rightCluster == clusters[active[c.minJ]]
             newCluster == [id |-> Len(clusters) + 1,
                            left |-> active[c.minI],
                            right |-> active[c.minJ],
                            height |-> c.minDist,
                            members |-> leftCluster.members \o rightCluster.members]
         IN  mergeClusters(Append(clusters, newCluster),
                           Append(RemoveAt(RemoveAt(active, c.minJ), c.minI), Len(clusters) + 1),
                           distMatrix)

\* the member lists of the active clusters at the start of the merge loop and
\* after each of its rounds
RECURSIVE activeHistory(_, _, _)
activeHistory(clusters, active, distMatrix) ==
    << [a \in 1..Len(active) |-> clusters[active[a]].members] >> \o
    (IF Len(active) <= 1 THEN << >>
     ELSE LET c == findClosestClusters(clusters, active, distMatrix)
              merged == mergeClusters(clusters, active, distMatrix).nodes[Len(clusters) + 1]
          IN  activeHistory(Append(clusters, merged),
                            Append(RemoveAt(RemoveAt(active, c.minJ), c.minI), Len(clusters) + 1),
                            distMatrix))

\* the dendrogram: its nodes and the index of its root (0: nil, for no items)
agglomerativeCluster(distMatrix) ==
    LET n == Len(distMatrix)
    IN  IF n = 0 THEN [nodes |-> << >>, root |-> 0]
        ELSE mergeClusters([i \in 1..n |-> leafNode(i)], [i \in 1..n |-> i], distMatrix)

isInternal(node) == node.left # 0 /\ node.right # 0

\* breadth-first walk from the queue, keeping the nodes with two children
RECURSIVE collectInternalNodes(_, _)
collectInternalNodes(nodes, queue) ==
    IF queue = << >> THEN << >>
    ELSE LET node == nodes[Head(queue)]
         IN  IF isInternal(node)
             THEN <<Head(queue)>> \o
                  collectInternalNodes(nodes, Tail(queue) \o <<node.left, node.right>>)
             ELSE collectInternalNodes(nodes, Tail(queue))

\* the position in current of the first cluster with the highest height among those
\* with two children (maxHeight starts at -1.0, below every height); 0 for none
RECURSIVE ScanHighest(_, _, _, _)
ScanHighest(best, nodes, current, j) ==
    IF j > Len(current) THEN best.maxHeightIdx
    ELSE LET cluster == nodes[current[j]]
             next == IF isInternal(cluster)
                        /\ (best.maxHeightIdx = 0 \/ RLess(best.maxHeight, cluster.height))
                     THEN [maxHeightIdx |-> j, maxHeight |-> cluster.height]
                     ELSE best
         IN  ScanHighest(next, nodes, current, j + 1)

findHighestMergeCluster(nodes, current) ==
    ScanHighest([maxHeightIdx |-> 0, maxHeight |-> RZero], nodes, current, 1)

\* the split loop of cutDendrogram: for i := 0; i < k-1 && i < len(internalNodes); i++
RECURSIVE splitClusters(_, _, _, _, _)
splitClusters(nodes, current, i, k, numInternal) ==
    IF ~(i < k - 1 /\ i < numInternal) THEN current
    ELSE LET maxHeightIdx == findHighestMergeCluster(nodes, current)
         IN  IF maxHeightIdx = 0 THEN current
             ELSE LET splitCluster == nodes[current[maxHeightIdx]]
                  IN  splitClusters(nodes,
                          RemoveAt(current, maxHeightIdx) \o
                              <<splitCluster.left, splitCluster.right>>,
                          i + 1, k, numInternal)

\* a cutDendrogram that splits the top k-2 merges
cutDendrogramOneSplitLess(dendrogram, k) ==
    IF dendrogram.root = 0 \/ k <= 0 THEN << >>
    ELSE LET nodes == dendrogram.nodes
             internalNodes == collectInternalNodes(nodes, <<dendrogram.root>>)
             current == splitClusters(nodes, <<dendrogram.root>>, 0, k - 1, Len(internalNodes))
         IN  [c \in 1..Len(current) |-> nodes[current[c]].members]

\* the member lists of the k clusters; the sort of internalNodes by height only
\* reorders a slice of which the loop reads the length
cutDendrogram(dendrogram, k) ==
    IF dendrogram.root = 0 \/ k <= 0 THEN << >>
    ELSE LET nodes == dendrogram.nodes
             internalNodes == collectInternalNodes(nodes, <<dendrogram.root>>)
             current == splitClusters(nodes, <<dendrogram.root>>, 0, k, Len(internalNodes))
         IN  [c \in 1..Len(current) |-> nodes[current[c]].members]

-----------------------------------------------------------------------------
(* Silhouette and the choice of k.  Cluster ids are 0..k-1 and -1 as in the source. *)

\* clusters[c], c in 0..k-1: the items assigned to c, in item order
groupByCluster(assignments, k) ==
    [c \in 0..(k - 1) |->
        SelectSeq([i \in 1..Len(assignments) |-> i], LAMBDA i : assignments[i] = c)]

computeIntraClusterDistance(i, members, distMatrix) ==
    LET others == SelectSeq(members, LAMBDA j : j # i)
    IN  RDivInt(RSum([x \in 1..Len(others) |-> distMatrix[i][others[x]]]), Len(members) - 1)

\* the least mean distance to another nonempty cluster; isInf when there is none
RECURSIVE ScanNearest(_, _, _, _, _, _, _)
ScanNearest(best, otherCluster, i, ownCluster, clusters, distMatrix, k) ==
    IF otherCluster >= k THEN best
    ELSE LET members == clusters[otherCluster]
             avgDist == RDivInt(RSum([x \in 1..Len(members) |-> distMatrix[i][members[x]]]),
                                Len(members))
             next == IF otherCluster = ownCluster \/ Len(members) = 0 THEN best
                     ELSE IF best.isInf \/ RLess(avgDist, best.minDist)
                          THEN [isInf |-> FALSE, minDist |-> avgDist]
                          ELSE best
         IN  ScanNearest(next, otherCluster + 1, i, ownCluster, clusters, distMatrix, k)

computeNearestClusterDistance(i, ownCluster, clusters, distMatrix, k) ==
    ScanNearest([isInf |-> TRUE, minDist |-> RZero], 0, i, ownCluster, clusters, distMatrix, k)

Invalid == [s |-> RZero, valid |-> FALSE]

computePointSilhouette(i, cluster, clusters, distMatrix, k) ==
    IF cluster < 0 \/ cluster >= k THEN Invalid
    ELSE IF Len(clusters[cluster]) <= 1 THEN Invalid
    ELSE LET a == computeIntraClusterDistance(i, clusters[cluster], distMatrix)
             b == computeNearestClusterDistance(i, cluster, clusters, distMatrix, k)
         IN  IF b.isInf THEN Invalid
             ELSE LET maxAB == RMax(a, b.minDist)
                  IN  IF maxAB = RZero THEN Invalid
                      ELSE [s |-> RDiv(RSub(b.minDist, a), maxAB), valid |-> TRUE]

silhouetteScore(distMatrix, assignments, k) ==
    LET n == Len(assignments)
    IN  IF n < 2 \/ k < 2 THEN RZero
        ELSE LET clusters == groupByCluster(assignments, k)
                 points == [i \in 1..n |->
                               computePointSilhouette(i, assignments[i], clusters, distMatrix, k)]
                 validOnes == SelectSeq(points, LAMBDA pt : pt.valid)
             IN  IF Len(validOnes) = 0 THEN RZero
                 ELSE RDivInt(RSum([x \in 1..Len(validOnes) |-> validOnes[x].s]),
                              Len(validOnes))

\* assignments[item] = position of its cluster in clusters, from 0; -1 for no cluster
clustersToAssignments(clusters, n) ==
    [i \in 1..n |->
        LET holding == {c \in 1..Len(clusters) : i \in SeqToSet(clusters[c])}
        IN  IF holding = {} THEN -1
            ELSE (CHOOSE c \in holding : \A d \in holding : d <= c) - 1]

\* the largest k raised by one
maxClustersPlusOne == 6 + 1

\* the largest k tried
maxClusters == 6

\* a loop of selectOptimalK that takes a k whose score is no lower than the best
RECURSIVE ScanKLastBest(_, _, _, _, _)
ScanKLastBest(best, k, maxK, dendrogram, distMatrix) ==
    IF k > maxK THEN best
    ELSE LET n == Len(distMatrix)
             clusters == cutDendrogram(dendrogram, k)
             assignments == clustersToAssignments(clusters, n)
             score == silhouetteScore(distMatrix, assignments, k)
             next == IF Len(clusters) < k THEN best
                     ELSE IF best.isNegInf \/ ~RLess(score, best.bestScore)
                          THEN [isNegInf |-> FALSE, bestScore |-> score, bestK |-> k,
                                bestAssignments |-> assignments,
                                silhouetteScores |-> best.silhouetteScores @@ (k :> score)]
                          ELSE [best EXCEPT !.silhouetteScores = @ @@ (k :> score)]
         IN  ScanKLastBest(next, k + 1, maxK, dendrogram, distMatrix)

\* the loop of selectOptimalK over k = from..maxK
RECURSIVE ScanK(_, _, _, _, _)
ScanK(best, k, maxK, dendrogram, distMatrix) ==
    IF k > maxK THEN best
    ELSE LET n == Len(distMatrix)
             clusters == cutDendrogram(dendrogram, k)
             assignments == clustersToAssignments(clusters, n)
             score == silhouetteScore(distMatrix, assignments, k)
             next == IF Len(clusters) < k THEN best
                     ELSE IF best.isNegInf \/ RLess(best.bestScore, score)
                          THEN [isNegInf |-> FALSE, bestScore |-> score, bestK |-> k,
                                bestAssignments |-> assignments,
                                silhouetteScores |-> best.silhouetteScores @@ (k :> score)]
                          ELSE [best EXCEPT !.silhouetteScores = @ @@ (k :> score)]
         IN  ScanK(next, k + 1, maxK, dendrogram, distMatrix)

\* bestK, bestAssignments (<< >> for nil) and the scores by k
selectOptimalK(distMatrix) ==
    LET n == Len(distMatrix)
        root == agglomerativeCluster(distMatrix)
        maxK0 == IF n - 1 < maxClusters THEN n - 1 ELSE maxClusters
        maxK == IF maxK0 < 2 THEN 2 ELSE maxK0
    IN  ScanK([isNegInf |-> TRUE, bestScore |-> RZero, bestK |-> 2,
               bestAssignments |-> << >>, silhouetteScores |-> << >>],
              2, maxK, root, distMatrix)

-----------------------------------------------------------------------------
(* The Cluster Assembler *)

\* the least cluster size lowered by one
minClusterSizeLessOne == 2 - 1

\* clusters with fewer items than this go to Other
minClusterSize == 2

\* the decimal digits of n >= 0, as fmt's %d prints them
RECURSIVE DecimalString(_)
DecimalString(n) ==
    IF n < 10 THEN <<48 + n>> ELSE DecimalString(n \div 10) \o <<48 + (n % 10)>>

\* "Cluster "
StrClusterPrefix == <<67, 108, 117, 115, 116, 101, 114, 32>>

\* parseFacetKey: the key split at its first ':'
RECURSIVE ColonAt(_, _)
ColonAt(key, i) ==
    IF i > Len(key) THEN 0 ELSE IF key[i] = 58 THEN i ELSE ColonAt(key, i + 1)

parseFacetKey(key) ==
    LET c == ColonAt(key, 1)
    IN  IF c = 0 THEN [name |-> key, value |-> StrEmpty]
        ELSE [name |-> SubSeq(key, 1, c - 1), value |-> SubSeq(key, c + 1, Len(key))]

\* partitionByCluster: the items of each cluster 0..k-1 and those of Other
partitionByCluster(assignments, k) ==
    LET items == [i \in 1..Len(assignments) |-> i]
        byCluster == [c \in 0..(k - 1) |-> SelectSeq(items, LAMBDA i : assignments[i] = c)]
        outside == SelectSeq(items, LAMBDA i : assignments[i] < 0 \/ assignments[i] >= k)
        isSmall(c) == Len(byCluster[c]) > 0 /\ Len(byCluster[c]) < minClusterSize
        RECURSIVE smallFrom(_)
        smallFrom(c) == IF c >= k THEN << >>
                        ELSE (IF isSmall(c) THEN byCluster[c] ELSE << >>) \o smallFrom(c + 1)
    IN  [clusterItems |-> [c \in 0..(k - 1) |-> IF isSmall(c) THEN << >> ELSE byCluster[c]],
         otherIndices |-> outside \o smallFrom(0)]

\* the facet keys of counts by count descending, then key ascending
RECURSIVE SortFacets(_, _)
SortFacets(keys, counts) ==
    IF keys = {} THEN << >>
    ELSE LET first == CHOOSE a \in keys : \A b \in keys \ {a} :
                          \/ counts[a] > counts[b]
                          \/ counts[a] = counts[b] /\ StrLess(a, b)
         IN  <<first>> \o SortFacets(keys \ {first}, counts)

\* sortAndLimitFacets over the items at indices
sortAndLimitFacets(facetSets, indices, topN) ==
    LET keys == UNION { facetSets[indices[x]] : x \in 1..Len(indices) }
        counts == [key \in keys |->
                      Cardinality({x \in 1..Len(indices) : key \in facetSets[indices[x]]})]
        sorted == SortFacets(keys, counts)
        limit == IF Len(sorted) < topN THEN Len(sorted) ELSE topN
    IN  [x \in 1..limit |->
            [FacetName |-> parseFacetKey(sorted[x]).name,
             FacetValue |-> parseFacetKey(sorted[x]).value,
             Count |-> counts[sorted[x]],
             Percentage |-> Rat(counts[sorted[x]] * 100, Len(indices))]]

computeTopFacetsForIndices(facetSets, indices) == sortAndLimitFacets(facetSets, indices, 5)

NilRule == [isNil |-> TRUE, Clauses |-> << >>]
NilQuality == [isNil |-> TRUE, Precision |-> RZero, Recall |-> RZero, F1 |-> RZero]

ClusterGroup(name, items, topFacets, rule, quality) ==
    [Name |-> name, Items |-> items, TopFacets |-> topFacets,
     Stats |-> [Size |-> Len(items), TopFacets |-> topFacets],
     Rule |-> rule, RuleQuality |-> quality]

\* the groups of the nonempty clusters, in cluster order, and the items of Other
buildClusterGroups(facetSets, assignments, k) ==
    LET part == partitionByCluster(assignments, k)
        RECURSIVE groupsFrom(_)
        groupsFrom(c) ==
            IF c >= k THEN << >>
            ELSE (IF Len(part.clusterItems[c]) = 0 THEN << >>
                  ELSE << ClusterGroup(StrClusterPrefix \o DecimalString(c + 1),
                                       part.clusterItems[c],
                                       computeTopFacetsForIndices(facetSets, part.clusterItems[c]),
                                       NilRule, NilQuality) >>)
                 \o groupsFrom(c + 1)
    IN  [groups |-> groupsFrom(0), otherItems |-> part.otherIndices]

-----------------------------------------------------------------------------
(* Decision lists *)

Clause(facetName, values) == [FacetName |-> facetName, Values |-> values]
DecisionList(clauses) == [isNil |-> FALSE, Clauses |-> clauses]

\* a Matches that one matching clause satisfies
MatchesAnyClause(d, fs) ==
    IF Len(d.Clauses) = 0 THEN TRUE
    ELSE \E c \in 1..Len(d.Clauses) :
            \E x \in 1..Len(d.Clauses[c].Values) :
                FacetKey(d.Clauses[c].FacetName, d.Clauses[c].Values[x]) \in fs

\* DecisionList.Matches
Matches(d, fs) ==
    IF Len(d.Clauses) = 0 THEN TRUE
    ELSE \A c \in 1..Len(d.Clauses) :
            \E x \in 1..Len(d.Clauses[c].Values) :
                FacetKey(d.Clauses[c].FacetName, d.Clauses[c].Values[x]) \in fs

\* a ToAlgoliaFilter that appends the groups in front
ToAlgoliaFilterPrepending(d) ==
    LET withValues == Reverse(SelectSeq(d.Clauses, LAMBDA c : Len(c.Values) # 0))
    IN  [c \in 1..Len(withValues) |->
            [x \in 1..Len(withValues[c].Values) |->
                FacetKey(withValues[c].FacetName, withValues[c].Values[x])]]

\* DecisionList.ToAlgoliaFilter: a clause without values gives no group
ToAlgoliaFilter(d) ==
    LET withValues == SelectSeq(d.Clauses, LAMBDA c : Len(c.Values) # 0)
    IN  [c \in 1..Len(withValues) |->
            [x \in 1..Len(withValues[c].Values) |->
                FacetKey(withValues[c].FacetName, withValues[c].Values[x])]]

\* joinStrings
RECURSIVE joinStrings(_, _)
joinStrings(strs, sep) ==
    IF Len(strs) = 0 THEN StrEmpty
    ELSE IF Len(strs) = 1 THEN strs[1]
    ELSE strs[1] \o sep \o joinStrings(Tail(strs), sep)

\* "(empty rule)", " OR ", " AND "
StrEmptyRule == <<40, 101, 109, 112, 116, 121, 32, 114, 117, 108, 101, 41>>
StrOr == <<32, 79, 82, 32>>
StrAnd == <<32, 65, 78, 68, 32>>

\* DecisionList.String
RuleString(d) ==
    IF Len(d.Clauses) = 0 THEN StrEmptyRule
    ELSE LET part(c) ==
                 IF Len(c.Values) = 1 THEN FacetKey(c.FacetName, c.Values[1])
                 ELSE <<40>> \o
                      joinStrings([x \in 1..Len(c.Values) |-> FacetKey(c.FacetName, c.Values[x])],
                                  StrOr)
                      \o <<41>>
         IN  joinStrings([c \in 1..Len(d.Clauses) |-> part(d.Clauses[c])], StrAnd)

\* the most clauses raised by one
MaxClausesInRulePlusOne == 3 + 1

\* the most clauses of a rule
MaxClausesInRule == 3

\* the least lift of a value of a clause, 1.2
MinLiftThreshold == [num |-> 6, den |-> 5]

\* facetName -> value -> counts over the positives and over all items; keys that
\* parse to an empty facet name are left out
collectFacetStats(positiveSet, allFacetSets) ==
    LET n == Len(allFacetSets)
        keys == { key \in UNION {allFacetSets[i] : i \in 1..n} : parseFacetKey(key).name # StrEmpty }
        names == { parseFacetKey(key).name : key \in keys }
        valuesOf(f) == { parseFacetKey(key).value : key \in {y \in keys : parseFacetKey(y).name = f} }
    IN  [f \in names |->
            [v \in valuesOf(f) |->
                [positiveCount |-> Cardinality({i \in positiveSet : i \in 1..n /\ FacetKey(f, v) \in allFacetSets[i]}),
                 totalCount |-> Cardinality({i \in 1..n : FacetKey(f, v) \in allFacetSets[i]})]]]

\* lift = (positiveCount/totalPositives) / (totalCount/totalItems) >= MinLiftThreshold
hasLift(stats, totalPositives, totalItems) ==
    /\ stats.totalCount # 0
    /\ stats.positiveCount # 0
    /\ ~RLess(RDiv(Rat(stats.positiveCount, totalPositives), Rat(stats.totalCount, totalItems)),
              MinLiftThreshold)

\* the values with enough lift, in the order the range over values meets them
selectValuesWithLift(values, totalPositives, totalItems, ord) ==
    SelectSeq(RangeOrderAt(DOMAIN values, ord.vr, ord.vrev),
              LAMBDA v : hasLift(values[v], totalPositives, totalItems))

computeRecall(rule, positiveIndices, allFacetSets) ==
    IF Len(positiveIndices) = 0 THEN RZero
    ELSE Rat(Cardinality({x \in 1..Len(positiveIndices) :
                             Matches(rule, allFacetSets[positiveIndices[x]])}),
             Len(positiveIndices))

computePrecision(rule, positiveIndices, allFacetSets) ==
    LET positiveSet == SeqToSet(positiveIndices)
        matching == {i \in 1..Len(allFacetSets) : Matches(rule, allFacetSets[i])}
    IN  IF matching = {} THEN RZero
        ELSE Rat(Cardinality(matching \cap positiveSet), Cardinality(matching))

computeRuleQuality(rule, positiveIndices, allFacetSets) ==
    LET precision == computePrecision(rule, positiveIndices, allFacetSets)
        recall == computeRecall(rule, positiveIndices, allFacetSets)
    IN  [isNil |-> FALSE, Precision |-> precision, Recall |-> recall,
         F1 |-> IF RLess(RZero, RAdd(precision, recall))
                THEN RDiv(Rat(2 * precision.num * recall.num, precision.den * recall.den),
                          RAdd(precision, recall))
                ELSE RZero]

\* a clause may lower recall by 0.2
recallDropLimitDoubled == [num |-> -1, den |-> 5]

\* recallGain >= -0.1 and newRecall >= 0.5
recallDropLimit == [num |-> -1, den |-> 10]
recallFloor == [num |-> 1, den |-> 2]

\* a shouldSelectClause that takes a clause that does not lower precision
shouldSelectClauseAnyPrecision(numClauses, newRecall, recallGain, candidateRule, currentRule, positiveIndices, allFacetSets, bestNewRecall, bestRecallGain) ==
    IF numClauses = 0 THEN RLess(bestNewRecall, newRecall)
    ELSE IF ~RLess(recallGain, recallDropLimit) /\ ~RLess(newRecall, recallFloor)
         THEN LET newPrecision == computePrecision(candidateRule, positiveIndices, allFacetSets)
                  currentPrecision == computePrecision(currentRule, positiveIndices, allFacetSets)
              IN  IF ~RLess(newPrecision, currentPrecision)
                  THEN \/ RLess(bestNewRecall, newRecall)
                       \/ newRecall = bestNewRecall /\ RLess(bestRecallGain, recallGain)
                  ELSE FALSE
         ELSE FALSE

shouldSelectClause(numClauses, newRecall, recallGain, candidateRule, currentRule, positiveIndices, allFacetSets, bestNewRecall, bestRecallGain) ==
    IF numClauses = 0 THEN RLess(bestNewRecall, newRecall)
    ELSE IF ~RLess(recallGain, recallDropLimit) /\ ~RLess(newRecall, recallFloor)
         THEN LET newPrecision == computePrecision(candidateRule, positiveIndices, allFacetSets)
                  currentPrecision == computePrecision(currentRule, positiveIndices, allFacetSets)
              IN  IF RLess(currentPrecision, newPrecision)
                  THEN \/ RLess(bestNewRecall, newRecall)
                       \/ newRecall = bestNewRecall /\ RLess(bestRecallGain, recallGain)
                  ELSE FALSE
         ELSE FALSE

NoClause == [bestClause |-> Clause(StrEmpty, << >>), bestFacet |-> StrEmpty,
             bestRecallGain |-> RZero, bestNewRecall |-> RZero]

\* the range over facetStats of findBestClause, over the facet names in nameOrder
RECURSIVE ScanClauses(_, _, _, _, _, _, _, _)
ScanClauses(best, nameOrder, currentClauses, facetStats, usedFacets, positiveIndices, allFacetSets, ord) ==
    IF nameOrder = << >> THEN best
    ELSE LET facetName == Head(nameOrder)
             selectedValues == selectValuesWithLift(facetStats[facetName], Len(positiveIndices),
                                                    Len(allFacetSets), ord)
             currentRule == DecisionList(currentClauses)
             currentRecall == computeRecall(currentRule, positiveIndices, allFacetSets)
             candidateClause == Clause(facetName, selectedValues)
             candidateRule == DecisionList(Append(currentClauses, candidateClause))
             newRecall == computeRecall(candidateRule, positiveIndices, allFacetSets)
             recallGain == RSub(newRecall, currentRecall)
             next == IF facetName \in usedFacets \/ Len(selectedValues) = 0 THEN best
                     ELSE IF shouldSelectClause(Len(currentClauses), newRecall, recallGain,
                                                candidateRule, currentRule, positiveIndices,
                                                allFacetSets, best.bestNewRecall,
                                                best.bestRecallGain)
                          THEN [bestClause |-> candidateClause, bestFacet |-> facetName,
                                bestRecallGain |-> recallGain, bestNewRecall |-> newRecall]
                          ELSE best
         IN  ScanClauses(next, Tail(nameOrder), currentClauses, facetStats, usedFacets,
                         positiveIndices, allFacetSets, ord)

findBestClause(currentClauses, facetStats, usedFacets, positiveIndices, allFacetSets, ord) ==
    ScanClauses(NoClause, RangeOrderAt(DOMAIN facetStats, ord.nr, ord.nrev), currentClauses,
                facetStats, usedFacets, positiveIndices, allFacetSets, ord)

\* the loop of selectClausesGreedy
RECURSIVE growClauses(_, _, _, _, _, _)
growClauses(clauses, usedFacets, facetStats, positiveIndices, allFacetSets, ord) ==
    IF ~(Len(clauses) < MaxClausesInRule) THEN clauses
    ELSE LET b == findBestClause(clauses, facetStats, usedFacets, positiveIndices,
                                 allFacetSets, ord)
         IN  IF b.bestFacet = StrEmpty THEN clauses
             ELSE growClauses(Append(clauses, b.bestClause), usedFacets \cup {b.bestFacet},
                              facetStats, positiveIndices, allFacetSets, ord)

selectClausesGreedy(facetStats, positiveIndices, allFacetSets, ord) ==
    growClauses(<< >>, {}, facetStats, positiveIndices, allFacetSets, ord)

ZeroQuality == [isNil |-> FALSE, Precision |-> RZero, Recall |-> RZero, F1 |-> RZero]

\* the rule and its quality; ord fixes the order of the ranges over the maps
fitDecisionList(positiveIndices, allFacetSets, ord) ==
    IF Len(positiveIndices) = 0 \/ Len(allFacetSets) = 0
    THEN [rule |-> DecisionList(<< >>), quality |-> ZeroQuality]
    ELSE LET facetStats == collectFacetStats(SeqToSet(positiveIndices), allFacetSets)
             clauses == selectClausesGreedy(facetStats, positiveIndices, allFacetSets, ord)
             rule == DecisionList(clauses)
         IN  [rule |-> rule, quality |-> computeRuleQuality(rule, positiveIndices, allFacetSets)]

\* the orders a fit may range in: rotation and direction for names and for values
RangeChoices(numNames, numValues) ==
    [nr : 0..(numNames - 1), nrev : BOOLEAN, vr : 0..(numValues - 1), vrev : BOOLEAN]

\* a group that keeps the items of its cluster once its rule is fitted
reassignedGroupKeepsItems(group, fit, facetSets) ==
    LET name == IF RuleString(fit.rule) = StrEmptyRule THEN group.Name ELSE RuleString(fit.rule)
    IN  ClusterGroup(name, group.Items, sortAndLimitFacets(facetSets, group.Items, 5),
                     fit.rule, fit.quality)

\* the group of a cluster once its rule is fitted: named by the rule, holding
\* the items the rule matches, with the top facets of those items
reassignedGroup(group, fit, facetSets) ==
    LET name == IF RuleString(fit.rule) = StrEmptyRule THEN group.Name ELSE RuleString(fit.rule)
        matching == SelectSeq([i \in 1..Len(facetSets) |-> i],
                              LAMBDA i : Matches(fit.rule, facetSets[i]))
    IN  ClusterGroup(name, matching, sortAndLimitFacets(facetSets, matching, 5),
                     fit.rule, fit.quality)

\* fitRulesForClusters, reassignItemsByRules and the recount of the top facets
fitAndReassign(gs, facetSets, ord) ==
    IF Len(gs) = 0 THEN gs
    ELSE [g \in 1..Len(gs) |->
             CHOOSE newGroup \in { reassignedGroup(gs[g], fit, facetSets) :
                                     fit \in {fitDecisionList(gs[g].Items, facetSets, ord)} } : TRUE]

-----------------------------------------------------------------------------
(* ProcessCluster *)

ClusterReturn(gs, other, count) ==
    [returned |-> TRUE, Groups |-> gs, OtherGroup |-> other, ClusterCount |-> count, err |-> "nil"]

\* the empty input and handleEdgeCases
ProcessClusterStart ==
    /\ pc = "cluster"
    /\ LET n == Len(algoliaResults.Hits)
           facetSets == extractFacetSets(algoliaResults)
       IN  IF algoliaResults.isNil \/ n = 0
           THEN clusterResult' = ClusterReturn(<< >>, << >>, 0) /\ pc' = "done"
           ELSE IF n < 2 \/ ~hasAnyFacets(facetSets)
                THEN clusterResult' = ClusterReturn(<< >>, [i \in 1..n |-> i], 0) /\ pc' = "done"
                ELSE clusterResult' = clusterResult /\ pc' = "selectK"
    /\ UNCHANGED <<algoliaResults, optimalK, clusterAssignments, silhouetteScores, groups, otherItems,
                   ripperVars, fitVars, libVars>>

\* buildDistanceMatrix and selectOptimalK
ClusterSelectK ==
    /\ pc = "selectK"
    /\ LET sel == selectOptimalK(buildDistanceMatrix(extractFacetSets(algoliaResults)))
       IN  /\ optimalK' = sel.bestK
           /\ clusterAssignments' = sel.bestAssignments
           /\ silhouetteScores' = sel.silhouetteScores
    /\ pc' = "assemble"
    /\ UNCHANGED <<algoliaResults, groups, otherItems, clusterResult, ripperVars, fitVars, libVars>>

\* buildClusterGroups
ClusterAssemble ==
    /\ pc = "assemble"
    /\ LET built == buildClusterGroups(extractFacetSets(algoliaResults), clusterAssignments, optimalK)
       IN  /\ groups' = built.groups
           /\ otherItems' = built.otherItems
    /\ pc' = "fit"
    /\ UNCHANGED <<algoliaResults, optimalK, clusterAssignments, silhouetteScores, clusterResult,
                   ripperVars, fitVars, libVars>>

\* the names and values a range of the rule fitter may meet
FacetNamesOf(facetSets) ==
    { parseFacetKey(key).name : key \in UNION {facetSets[i] : i \in 1..Len(facetSets)} }
\* the most values one facet name has
MostValuesOf(facetSets) ==
    LET keys == UNION {facetSets[i] : i \in 1..Len(facetSets)}
        sizes == { Cardinality({ parseFacetKey(y).value :
                                   y \in {z \in keys : parseFacetKey(z).name = f} }) :
                     f \in FacetNamesOf(facetSets) } \cup {1}
    IN  CHOOSE m \in sizes : \A k \in sizes : k <= m

AtLeastOne(n) == IF n < 1 THEN 1 ELSE n

FitOrders(facetSets) ==
    RangeChoices(AtLeastOne(Cardinality(FacetNamesOf(facetSets))), MostValuesOf(facetSets))

\* fitAndReassign and the return
ClusterFitAndReturn ==
    /\ pc = "fit"
    /\ \E facetSets \in {extractFacetSets(algoliaResults)} :
          \E ord \in FitOrders(facetSets) :
             /\ groups' = fitAndReassign(groups, facetSets, ord)
             /\ clusterResult' = ClusterReturn(groups', otherItems, Len(groups'))
    /\ pc' = "done"
    /\ UNCHANGED <<algoliaResults, optimalK, clusterAssignments, silhouetteScores, otherItems,
                   ripperVars, fitVars, libVars>>

\* the general inputs less those ProcessCluster cannot tell from another one:
\* it reads no facet counts, and a value listed twice is one key of a facet set
ClusterInputs ==
    { r \in GeneralInputs :
        /\ r.Facets.isNil
        /\ \A i \in 1..Len(r.Hits) :
              r.Hits[i].Facets # FacetsOf(StrTag :> ArrayVal(<<StrElem(StrX), StrElem(StrX)>>)) }

ClusterInit ==
    /\ algoliaResults \in ClusterInputs
    /\ pc = "cluster"
    /\ RipperIdle /\ ClusterIdle /\ FitIdle /\ LibIdle

ClusterNext == ProcessClusterStart \/ ClusterSelectK \/ ClusterAssemble \/ ClusterFitAndReturn

\* ProcessCluster on the general inputs
SpecCluster == ClusterInit /\ [][ClusterNext]_vars

\* the facet maps hit i is given in the specification of selectOptimalK: the
\* value all such hits share, or a value of its own
MatrixHitChoices(i) ==
    { FacetsOf(StrTag :> StringVal(StrX)),
      FacetsOf(StrTag :> StringVal(StrOwn(i))) }

RECURSIVE MatrixHitSeqs(_)
MatrixHitSeqs(n) ==
    IF n = 0 THEN { << >> }
    ELSE { Append(h, Hit(n, f)) : h \in MatrixHitSeqs(n - 1), f \in MatrixHitChoices(n) }

MatrixInputs ==
    { Results(h, NilCounts) : h \in UNION {MatrixHitSeqs(n) : n \in 0..MaxMatrixHits} }

SelectKInit ==
    /\ algoliaResults \in MatrixInputs
    /\ pc = "cluster"
    /\ RipperIdle /\ ClusterIdle /\ FitIdle /\ LibIdle

SelectKNext == ProcessClusterStart \/ ClusterSelectK

\* ProcessCluster up to selectOptimalK, on inputs of up to MaxMatrixHits hits
SpecSelectK == SelectKInit /\ [][SelectKNext]_vars

-----------------------------------------------------------------------------
(* fitDecisionList on its own *)

StrS == <<115>>
StrV == <<118>>
StrW == <<119>>
StrF2 == <<102, 50>>
StrF3 == <<102, 51>>
StrF4 == <<102, 52>>
StrA == <<97>>

\* the kinds of item of the fitting corpus: whether the item is a positive, its
\* facet set, and the bound of how many such items a corpus has
FitKinds ==
    << [positive |-> TRUE, most |-> MaxBulk,
        fs |-> {FacetKey(StrS, StrV), FacetKey(StrS, StrW), FacetKey(StrF2, StrA),
                FacetKey(StrF3, StrA), FacetKey(StrF4, StrA)}],
       [positive |-> TRUE, most |-> MaxRare,
        fs |-> {FacetKey(StrS, StrV), FacetKey(StrS, StrW), FacetKey(StrF3, StrA),
                FacetKey(StrF4, StrA)}],
       [positive |-> TRUE, most |-> MaxRare,
        fs |-> {FacetKey(StrS, StrV), FacetKey(StrS, StrW), FacetKey(StrF2, StrA),
                FacetKey(StrF4, StrA)}],
       [positive |-> FALSE, most |-> MaxRare,
        fs |-> {FacetKey(StrS, StrW), FacetKey(StrF3, StrA), FacetKey(StrF4, StrA)}],
       [positive |-> FALSE, most |-> MaxRare,
        fs |-> {FacetKey(StrS, StrW), FacetKey(StrF2, StrA), FacetKey(StrF4, StrA)}],
       [positive |-> FALSE, most |-> MaxRare,
        fs |-> {FacetKey(StrS, StrW), FacetKey(StrF2, StrA), FacetKey(StrF3, StrA)}],
       [positive |-> FALSE, most |-> MaxPad, fs |-> {}] >>

\* the corpus with counts[x] items of kind x, kind by kind
RECURSIVE CorpusOf(_, _)
CorpusOf(counts, x) ==
    IF x > Len(FitKinds) THEN << >>
    ELSE [j \in 1..counts[x] |-> FitKinds[x]] \o CorpusOf(counts, x + 1)

FitCounts == { c \in [1..Len(FitKinds) -> 0..MaxBulk] : \A x \in 1..Len(FitKinds) : c[x] <= FitKinds[x].most }

FitInit ==
    /\ \E c \in FitCounts :
          LET corpus == CorpusOf(c, 1)
          IN  /\ fitCorpus = [i \in 1..Len(corpus) |-> corpus[i].fs]
              /\ fitPositives = SelectSeq([i \in 1..Len(corpus) |-> i],
                                             LAMBDA i : corpus[i].positive)
    /\ fitResult = [returned |-> FALSE, rule |-> NilRule, quality |-> NilQuality]
    /\ pc = "fitDecisionList"
    /\ algoliaResults = NilResults
    /\ RipperIdle /\ ClusterIdle /\ LibIdle

\* one call of fitDecisionList
FitDecisionList ==
    /\ pc = "fitDecisionList"
    /\ \E ord \in FitOrders(fitCorpus) :
          LET fit == fitDecisionList(fitPositives, fitCorpus, ord)
          IN  fitResult' = [returned |-> TRUE, rule |-> fit.rule, quality |-> fit.quality]
    /\ pc' = "done"
    /\ UNCHANGED <<algoliaResults, fitPositives, fitCorpus, ripperVars, clusterVars, libVars>>

FitNext == FitDecisionList

\* fitDecisionList on the corpora of FitKinds
SpecFit == FitInit /\ [][FitNext]_vars

\* most items of a corpus of the edge cases of the fit
MaxEdgeItems == 4

\* the corpora of at most n items that have the token s:v or no token
RECURSIVE EdgeCorpora(_)
EdgeCorpora(n) ==
    IF n = 0 THEN { << >> }
    ELSE EdgeCorpora(n - 1) \cup
         { Append(l, fs) : l \in { m \in EdgeCorpora(n - 1) : Len(m) = n - 1 },
                           fs \in { {}, {FacetKey(StrS, StrV)} } }

FitEdgeInit ==
    /\ fitCorpus \in EdgeCorpora(MaxEdgeItems)
    /\ \E positives \in SUBSET (1..Len(fitCorpus)) :
          fitPositives = SelectSeq([i \in 1..Len(fitCorpus) |-> i], LAMBDA i : i \in positives)
    /\ fitResult = [returned |-> FALSE, rule |-> NilRule, quality |-> NilQuality]
    /\ pc = "fitDecisionList"
    /\ algoliaResults = NilResults
    /\ RipperIdle /\ ClusterIdle /\ LibIdle

\* fitDecisionList on the corpora with one token or none, any items positive
SpecFitEdge == FitEdgeInit /\ [][FitNext]_vars

-----------------------------------------------------------------------------
(* The methods of DecisionList alone *)

\* most clauses of a rule and most values of a clause of the rule inputs
MaxRuleClauses == 2
MaxRuleValues == 2

RuleFacetNames == {StrTag, StrKind}
RuleFacetValues == {StrX, StrY}

\* the value lists of at most n values
RECURSIVE ValueLists(_)
ValueLists(n) ==
    IF n = 0 THEN { << >> }
    ELSE ValueLists(n - 1) \cup
         { Append(l, v) : l \in { m \in ValueLists(n - 1) : Len(m) = n - 1 }, v \in RuleFacetValues }

RuleClauses == { Clause(name, values) : name \in RuleFacetNames, values \in ValueLists(MaxRuleValues) }

\* the clause lists of at most n clauses
RECURSIVE ClauseLists(_)
ClauseLists(n) ==
    IF n = 0 THEN { << >> }
    ELSE ClauseLists(n - 1) \cup
         { Append(l, c) : l \in { m \in ClauseLists(n - 1) : Len(m) = n - 1 }, c \in RuleClauses }

RuleInputs == { DecisionList(clauses) : clauses \in ClauseLists(MaxRuleClauses) }

RuleFacetSets == SUBSET { FacetKey(name, value) : name \in RuleFacetNames, value \in RuleFacetValues }

RuleInit ==
    /\ ruleArg \in RuleInputs
    /\ facetSetArg \in RuleFacetSets
    /\ ruleReturn = [call |-> "none"]
    /\ pc = "rule"
    /\ algoliaResults = NilResults
    /\ RipperIdle /\ ClusterIdle /\ FitIdle /\ SimIdle /\ LabelIdle

\* one call of d.ToAlgoliaFilter()
CallToAlgoliaFilter ==
    /\ pc = "rule"
    /\ ruleReturn' = [call |-> "ToAlgoliaFilter", value |-> ToAlgoliaFilter(ruleArg)]
    /\ pc' = "done"
    /\ UNCHANGED <<algoliaResults, ruleArg, facetSetArg, ripperVars, clusterVars, fitVars,
                   simVars, labelVars>>

\* one call of d.Matches(fs)
CallMatches ==
    /\ pc = "rule"
    /\ ruleReturn' = [call |-> "Matches", value |-> Matches(ruleArg, facetSetArg)]
    /\ pc' = "done"
    /\ UNCHANGED <<algoliaResults, ruleArg, facetSetArg, ripperVars, clusterVars, fitVars,
                   simVars, labelVars>>

\* a call of d.Matches(fs) and a call of d.ToAlgoliaFilter() on the same rule
CallMatchesAndToAlgoliaFilter ==
    /\ pc = "rule"
    /\ ruleReturn' = [call |-> "MatchesAndToAlgoliaFilter",
                      matches |-> Matches(ruleArg, facetSetArg),
                      filter |-> ToAlgoliaFilter(ruleArg)]
    /\ pc' = "done"
    /\ UNCHANGED <<algoliaResults, ruleArg, facetSetArg, ripperVars, clusterVars, fitVars,
                   simVars, labelVars>>

RuleNext == CallToAlgoliaFilter \/ CallMatches \/ CallMatchesAndToAlgoliaFilter

\* the methods of DecisionList on the rule inputs
SpecRule == RuleInit /\ [][RuleNext]_vars

-----------------------------------------------------------------------------
(* The similarity and dendrogram functions alone *)

\* most facet sets of an input of the similarity functions
MaxSimItems == 4

\* the facet sets of the inputs: none, one, two that share one token with
\* each other, and all of the tokens tag:x, tag:y and k:x
SimFacetSets ==
    { {}, {FacetKey(StrTag, StrX)}, {FacetKey(StrTag, StrX), FacetKey(StrTag, StrY)},
      {FacetKey(StrTag, StrY), FacetKey(StrKind, StrX)},
      {FacetKey(StrTag, StrX), FacetKey(StrTag, StrY), FacetKey(StrKind, StrX)} }

\* the facet set lists of at most n facet sets
RECURSIVE FacetSetLists(_)
FacetSetLists(n) ==
    IF n = 0 THEN { << >> }
    ELSE FacetSetLists(n - 1) \cup
         { Append(l, fs) : l \in { m \in FacetSetLists(n - 1) : Len(m) = n - 1 },
                           fs \in SimFacetSets }

SimInit ==
    /\ simFacetSets \in FacetSetLists(MaxSimItems)
    /\ simReturn = [call |-> "none"]
    /\ pc = "similarity"
    /\ algoliaResults = NilResults
    /\ RipperIdle /\ ClusterIdle /\ FitIdle /\ RuleIdle /\ LabelIdle

\* one call of jaccardDistance on two of the facet sets
CallJaccardDistance ==
    /\ pc = "similarity"
    /\ \E i \in 1..Len(simFacetSets), j \in 1..Len(simFacetSets) :
          simReturn' = [call |-> "jaccardDistance", a |-> simFacetSets[i], b |-> simFacetSets[j],
                        value |-> jaccardDistance(simFacetSets[i], simFacetSets[j]),
                        swapped |-> jaccardDistance(simFacetSets[j], simFacetSets[i])]
    /\ pc' = "done"
    /\ UNCHANGED <<algoliaResults, simFacetSets, ripperVars, clusterVars, fitVars,
                   ruleVars, labelVars>>

\* one call of buildDistanceMatrix on the facet sets
CallBuildDistanceMatrix ==
    /\ pc = "similarity"
    /\ simReturn' = [call |-> "buildDistanceMatrix", value |-> buildDistanceMatrix(simFacetSets)]
    /\ pc' = "done"
    /\ UNCHANGED <<algoliaResults, simFacetSets, ripperVars, clusterVars, fitVars,
                   ruleVars, labelVars>>

\* one call of cutDendrogram on the dendrogram of the facet sets, for a k from
\* below 1 to above the number of items
CallCutDendrogram ==
    /\ pc = "similarity"
    /\ \E k \in (-1)..(MaxSimItems + 2) :
          \E dendrogram \in {agglomerativeCluster(buildDistanceMatrix(simFacetSets))} :
             simReturn' = [call |-> "cutDendrogram", k |-> k, rootIsNil |-> dendrogram.root = 0,
                           value |-> cutDendrogram(dendrogram, k)]
    /\ pc' = "done"
    /\ UNCHANGED <<algoliaResults, simFacetSets, ripperVars, clusterVars, fitVars,
                   ruleVars, labelVars>>

\* one call of agglomerativeCluster on the matrix of the facet sets, with the
\* active clusters its loop went through, and one call of cutDendrogram on its
\* dendrogram for a k from 1 to the number of items
CallAgglomerativeCluster ==
    /\ pc = "similarity"
    /\ Len(simFacetSets) >= 1
    /\ \E k \in 1..Len(simFacetSets) :
          \E distMatrix \in {buildDistanceMatrix(simFacetSets)} :
             \E dendrogram \in {agglomerativeCluster(distMatrix)} :
                simReturn' = [call |-> "agglomerativeCluster",
                              nodes |-> dendrogram.nodes, root |-> dendrogram.root,
                              history |-> activeHistory([i \in 1..Len(distMatrix) |-> leafNode(i)],
                                                        [i \in 1..Len(distMatrix) |-> i],
                                                        distMatrix),
                              k |-> k, cut |-> cutDendrogram(dendrogram, k)]
    /\ pc' = "done"
    /\ UNCHANGED <<algoliaResults, simFacetSets, ripperVars, clusterVars, fitVars,
                   ruleVars, labelVars>>

SimNext ==
    CallJaccardDistance \/ CallBuildDistanceMatrix \/ CallCutDendrogram \/ CallAgglomerativeCluster

\* the similarity and dendrogram functions on the facet set lists
SpecSim == SimInit /\ [][SimNext]_vars

-----------------------------------------------------------------------------
(* The naming step of HandleCluster: GenerateClusterNames and the assignment *)

\* most groups of a result that HandleCluster names
MaxLabelGroups == 3

\* the label "L<i>" the generator may answer for the cluster at index i, and
\* the label "L" it may answer for any
StrLabel(i) == <<76, 48 + i>>
StrSharedLabel == <<76>>

\* fmt.Sprintf("Cluster %d", index+1), index counted from 1 here
PositionalName(i) == StrClusterPrefix \o DecimalString(i)

\* the names ProcessCluster may leave in the group at index i: the name of
\* buildClusterGroups, of the cluster at i or of a later one when an earlier
\* cluster went to Other, or the string of the fitted rule
CoreNames(i) ==
    { PositionalName(i), PositionalName(i + 1),
      RuleString(DecisionList(<< Clause(StrTag, <<StrX, StrOwn(i)>>) >>)) }

\* what one call of GenerateClusterName may return for the cluster at index i
NameOutcomes(i) ==
    { [index |-> i, name |-> l, err |-> "nil"] : l \in {StrLabel(i), StrSharedLabel} }
    \cup { [index |-> i, name |-> StrEmpty, err |-> e] : e \in {"error", "timeout"} }

LabelInit ==
    /\ \E n \in 0..MaxLabelGroups :
          groupNames \in { names \in [1..n -> UNION {CoreNames(i) : i \in 1..n}] :
                              \A i \in 1..n : names[i] \in CoreNames(i) }
    /\ anthropicClient \in BOOLEAN
    /\ goroutines = {}
    /\ resultCh = << >>
    /\ labelResults = << >>
    /\ labelReceived = << >>
    /\ pc = "names"
    /\ algoliaResults = NilResults
    /\ RipperIdle /\ ClusterIdle /\ FitIdle /\ RuleIdle /\ SimIdle

\* HandleCluster without a client or without groups: the names stay
SkipClusterNames ==
    /\ pc = "names"
    /\ ~(anthropicClient /\ Len(groupNames) > 0)
    /\ pc' = "done"
    /\ UNCHANGED <<algoliaResults, ripperVars, clusterVars, fitVars, ruleVars, simVars, labelVars>>

\* GenerateClusterNames up to the launch of one goroutine per cluster
LaunchClusterNames ==
    /\ pc = "names"
    /\ anthropicClient /\ Len(groupNames) > 0
    /\ goroutines' = 1..Len(groupNames)
    /\ labelResults' = [i \in 1..Len(groupNames) |-> StrEmpty]
    /\ pc' = "collect"
    /\ UNCHANGED <<algoliaResults, groupNames, anthropicClient, resultCh, labelReceived,
                   ripperVars, clusterVars, fitVars, ruleVars, simVars>>

\* one goroutine: GenerateClusterName and the send on resultCh, which has room
\* for every result
GoroutineSend ==
    /\ \E i \in goroutines :
          /\ goroutines' = goroutines \ {i}
          /\ \E r \in NameOutcomes(i) : resultCh' = Append(resultCh, r)
    /\ UNCHANGED <<algoliaResults, pc, groupNames, anthropicClient, labelResults, labelReceived,
                   ripperVars, clusterVars, fitVars, ruleVars, simVars>>

\* what the collecting loop stores for a result
StoredName(r) == IF r.err # "nil" THEN PositionalName(r.index) ELSE r.name

\* a round of the collecting loop that stores the results in the order they arrive
CollectResultInArrivalOrder ==
    /\ pc = "collect"
    /\ resultCh # << >>
    /\ resultCh' = Tail(resultCh)
    /\ labelResults' = [labelResults EXCEPT ![Len(labelReceived) + 1] = StoredName(Head(resultCh))]
    /\ labelReceived' = Append(labelReceived, Head(resultCh))
    /\ pc' = IF Len(labelReceived') = Len(groupNames) THEN "assign" ELSE "collect"
    /\ UNCHANGED <<algoliaResults, groupNames, anthropicClient, goroutines,
                   ripperVars, clusterVars, fitVars, ruleVars, simVars>>

\* one round of the collecting loop: a receive from resultCh and the store
CollectResult ==
    /\ pc = "collect"
    /\ resultCh # << >>
    /\ resultCh' = Tail(resultCh)
    /\ labelResults' = [labelResults EXCEPT ![Head(resultCh).index] = StoredName(Head(resultCh))]
    /\ labelReceived' = Append(labelReceived, Head(resultCh))
    /\ pc' = IF Len(labelReceived') = Len(groupNames) THEN "assign" ELSE "collect"
    /\ UNCHANGED <<algoliaResults, groupNames, anthropicClient, goroutines,
                   ripperVars, clusterVars, fitVars, ruleVars, simVars>>

\* GenerateClusterNames returns results and a nil error; HandleCluster assigns
\* names[i] to the group at i
AssignClusterNames ==
    /\ pc = "assign"
    /\ groupNames' = [i \in 1..Len(groupNames) |->
                         IF i <= Len(labelResults) THEN labelResults[i] ELSE groupNames[i]]
    /\ pc' = "done"
    /\ UNCHANGED <<algoliaResults, anthropicClient, goroutines, resultCh, labelResults,
                   labelReceived, ripperVars, clusterVars, fitVars, ruleVars, simVars>>

LabelNext ==
    SkipClusterNames \/ LaunchClusterNames \/ GoroutineSend \/ CollectResult \/ AssignClusterNames

\* the naming step of HandleCluster on the names ProcessCluster may leave
SpecLabel == LabelInit /\ [][LabelNext]_vars

\* the naming step with the collecting loop and the assignment running on: the
\* loop of GenerateClusterNames receives whenever the channel holds a result
SpecLabelFair ==
    LabelInit /\ [][LabelNext]_vars /\ WF_vars(CollectResult) /\ WF_vars(AssignClusterNames)

\* the two entry points and the rule fitter, on the general inputs
Init == RipperInit \/ ClusterInit

Next == RipperNext \/ ClusterNext

Spec == Init /\ [][Next]_vars

-----------------------------------------------------------------------------
(* Properties of ProcessRipper *)

\* how often item i occurs in the groups and the Other list ProcessRipper returned
RipperOccurrences(i) ==
    SumSeq([g \in 1..Len(ripperResult.Groups) |-> Occurrences(ripperResult.Groups[g].Items, i)])
    + Occurrences(ripperResult.OtherGroup, i)

\* the unassigned items of the faceting loop
RipperUnassigned == Len(algoliaResults.Hits) - Cardinality(assignedItems)

\* C2: when ProcessRipper has returned, each input item occurs exactly once in
\* the item lists of the groups and the Other list taken together
C2_RipperEachItemOnce ==
    ripperResult.returned =>
        \A i \in 1..Len(algoliaResults.Hits) : RipperOccurrences(i) = 1

\* C3: every group the faceting loop has recorded holds at least minGroupSize
\* distinct items
C3_RipperGroupsMeetMinimum ==
    \A g \in 1..Len(selectedGroups) :
        Cardinality(SeqToSet(selectedGroups[g].Items)) >= minGroupSize(Len(algoliaResults.Hits))

\* C4: ProcessRipper returns at most 5 groups
C4_RipperAtMostFiveGroups ==
    ripperResult.returned => Len(ripperResult.Groups) <= 5

\* a facet value no group was made of, held by at least minGroupSize unassigned items
RipperValueLeft ==
    \E i \in 1..Len(algoliaResults.Hits) :
        \E v \in SeqToSet(hitValues(algoliaResults.Hits[i], StrTag)) :
            /\ <<StrTag, v>> \notin selectedFacetValues
            /\ Cardinality({ j \in 1..Len(algoliaResults.Hits) :
                                /\ j \notin assignedItems
                                /\ v \in SeqToSet(hitValues(algoliaResults.Hits[j], StrTag)) })
                 >= minGroupSize(Len(algoliaResults.Hits))

\* C4 witness: five groups are returned although another value was eligible
C4_Witness_FiveGroupsValueLeft ==
    /\ ripperResult.returned
    /\ Len(ripperResult.Groups) = 5
    /\ RipperValueLeft

\* C5: an iteration that records a group lowers the number of unassigned items
\* by at least minGroupSize, and the loop is left once fewer than minGroupSize
\* items are unassigned
C5_RipperUnassignedDecreases ==
    [][ /\ (Len(selectedGroups') > Len(selectedGroups) =>
               Len(algoliaResults.Hits') - Cardinality(assignedItems')
                   <= RipperUnassigned - minGroupSize(Len(algoliaResults.Hits)))
        /\ (pc = "ripperLoop" /\ RipperUnassigned < minGroupSize(Len(algoliaResults.Hits)) =>
               pc' = "ripperOther") ]_vars

-----------------------------------------------------------------------------
(* Properties of ProcessCluster *)

\* how often item i occurs in the item lists of gs and in other
GroupOccurrences(gs, other, i) ==
    SumSeq([g \in 1..Len(gs) |-> Occurrences(gs[g].Items, i)]) + Occurrences(other, i)

\* C1: when ProcessCluster has returned, each input item is in exactly one of
\* the returned groups and the Other group
C1_ClusterEachItemOnce ==
    clusterResult.returned =>
        \A i \in 1..Len(algoliaResults.Hits) :
            GroupOccurrences(clusterResult.Groups, clusterResult.OtherGroup, i) = 1

\* no hit of the input has a facet
NoItemHasFacet ==
    \A i \in 1..Len(algoliaResults.Hits) :
        algoliaResults.Hits[i].Facets.isNil \/ DOMAIN algoliaResults.Hits[i].Facets.m = {}

\* the input is absent or empty, has fewer than 2 items, or no item with a facet
EdgeCaseInput ==
    algoliaResults.isNil \/ Len(algoliaResults.Hits) < 2 \/ NoItemHasFacet

\* all items of the input, in order (none for the absent and the empty input)
AllItems == [i \in 1..Len(algoliaResults.Hits) |-> i]

\* C6: on an absent or empty input, an input of fewer than 2 items and an input
\* without facets, either entry point returns no groups, all items in Other,
\* and no error
C6_EdgeCasesAllToOther ==
    EdgeCaseInput =>
        /\ ripperResult.returned =>
              /\ ripperResult.Groups = << >>
              /\ ripperResult.OtherGroup = AllItems
              /\ ripperResult.err = "nil"
        /\ clusterResult.returned =>
              /\ clusterResult.Groups = << >>
              /\ clusterResult.OtherGroup = AllItems
              /\ clusterResult.err = "nil"

\* C6 witness: ProcessCluster has returned on two or more items without facets
C6_Witness_ClusterNoFacets ==
    /\ clusterResult.returned
    /\ Len(algoliaResults.Hits) >= 2
    /\ NoItemHasFacet

\* the members of cluster c in the assignments of selectOptimalK
ClusterMembers(c) ==
    { i \in 1..Len(clusterAssignments) : clusterAssignments[i] = c }

\* C7: after buildClusterGroups no group has fewer than 2 items, the member of
\* a cluster of one is in Other and in no group, and each item is in exactly
\* one of the groups and Other
C7_AssembledGroupsAtLeastTwo ==
    pc = "fit" =>
        /\ \A g \in 1..Len(groups) : Len(groups[g].Items) >= 2
        /\ \A c \in 0..(optimalK - 1) :
              Cardinality(ClusterMembers(c)) = 1 =>
                  \A i \in ClusterMembers(c) :
                      /\ Occurrences(otherItems, i) = 1
                      /\ \A g \in 1..Len(groups) : Occurrences(groups[g].Items, i) = 0
        /\ \A i \in 1..Len(algoliaResults.Hits) : GroupOccurrences(groups, otherItems, i) = 1

\* C7 witness: the cut made a cluster of one and a cluster of two or more
C7_Witness_SingletonToOther ==
    /\ pc = "fit"
    /\ \E c \in 0..(optimalK - 1) : Cardinality(ClusterMembers(c)) = 1
    /\ Len(groups) >= 1
    /\ Len(otherItems) >= 1

\* C8: on three or more items the k of selectOptimalK is at least 2 and at
\* most the lesser of 6 and n - 1, and the assignments name at most 6 clusters
C8_OptimalKInRange ==
    (pc = "assemble" /\ Len(algoliaResults.Hits) >= 3) =>
        /\ optimalK >= 2
        /\ optimalK <= 6
        /\ optimalK <= Len(algoliaResults.Hits) - 1
        /\ Cardinality({ clusterAssignments[i] : i \in 1..Len(clusterAssignments) }) <= 6

\* C8 witness: on more than 7 items selectOptimalK chose the largest k it tries
C8_Witness_SixOfMany ==
    /\ pc = "assemble"
    /\ Len(algoliaResults.Hits) > 7
    /\ optimalK = 6

-----------------------------------------------------------------------------
(* Properties of fitDecisionList *)

\* C9: a rule fitDecisionList returns has at most 3 clauses
C9_AtMostThreeClauses ==
    fitResult.returned => Len(fitResult.rule.Clauses) <= 3

\* C9 witness: a rule of three clauses is returned for a corpus of more than
\* three facets
C9_Witness_ThreeClausesOfMore ==
    /\ fitResult.returned
    /\ Len(fitResult.rule.Clauses) = 3
    /\ Cardinality(FacetNamesOf(fitCorpus)) > 3

\* some value of a named facet is held by every positive and by no other item
HasSeparatingValue ==
    /\ Len(fitPositives) > 0
    /\ \E key \in UNION {fitCorpus[i] : i \in 1..Len(fitCorpus)} :
          /\ parseFacetKey(key).name # StrEmpty
          /\ \A i \in 1..Len(fitCorpus) : (key \in fitCorpus[i]) <=> (i \in SeqToSet(fitPositives))

-----------------------------------------------------------------------------
(* Properties of the methods of DecisionList *)

\* the rule of the call has a value in every clause
EveryClauseHasValues == \A c \in 1..Len(ruleArg.Clauses) : Len(ruleArg.Clauses[c].Values) >= 1

\* C11: for a rule whose clauses all have a value, ToAlgoliaFilter returns one
\* list per clause, in clause order, that holds the strings "facetName:value"
\* of the clause in value order and nothing else; a rule without clauses gives
\* no list at all
C11_FilterGroupPerClause ==
    ruleReturn.call = "ToAlgoliaFilter" =>
        /\ EveryClauseHasValues =>
              /\ Len(ruleReturn.value) = Len(ruleArg.Clauses)
              /\ \A c \in 1..Len(ruleArg.Clauses) :
                    /\ Len(ruleReturn.value[c]) = Len(ruleArg.Clauses[c].Values)
                    /\ \A x \in 1..Len(ruleArg.Clauses[c].Values) :
                          ruleReturn.value[c][x] =
                              ruleArg.Clauses[c].FacetName \o <<58>> \o ruleArg.Clauses[c].Values[x]
        /\ Len(ruleArg.Clauses) = 0 => Len(ruleReturn.value) = 0

\* a filter of two groups of two strings each, of two different facets
C11_Witness_TwoGroupsOfTwo ==
    /\ ruleReturn.call = "ToAlgoliaFilter"
    /\ EveryClauseHasValues
    /\ Len(ruleArg.Clauses) = 2
    /\ ruleArg.Clauses[1].FacetName # ruleArg.Clauses[2].FacetName
    /\ Len(ruleReturn.value) = 2
    /\ \A c \in 1..2 : Len(ruleReturn.value[c]) = 2 /\ ruleReturn.value[c][1] # ruleReturn.value[c][2]

\* the clause has a value whose token is in the facet set of the call
ClauseHasToken(clause) ==
    \E v \in SeqToSet(clause.Values) : (clause.FacetName \o <<58>> \o v) \in facetSetArg

\* C12: Matches returns true exactly when every clause of the rule has a value
\* whose token "facetName:value" is in the facet set, so that a rule without
\* clauses matches every facet set, the empty one too
C12_MatchesEveryClause ==
    ruleReturn.call = "Matches" =>
        /\ ruleReturn.value = (\A clause \in SeqToSet(ruleArg.Clauses) : ClauseHasToken(clause))
        /\ Len(ruleArg.Clauses) = 0 => ruleReturn.value = TRUE

\* a rule of two clauses that does not match a set with a token of its first
\* clause alone
C12_Witness_OneClauseOfTwoMatches ==
    /\ ruleReturn.call = "Matches"
    /\ Len(ruleArg.Clauses) = 2
    /\ ClauseHasToken(ruleArg.Clauses[1])
    /\ ~ClauseHasToken(ruleArg.Clauses[2])
    /\ ruleReturn.value = FALSE

\* the rule without clauses matches the empty facet set
C12_Witness_EmptyRuleEmptySet ==
    /\ ruleReturn.call = "Matches"
    /\ Len(ruleArg.Clauses) = 0
    /\ facetSetArg = {}
    /\ ruleReturn.value = TRUE

-----------------------------------------------------------------------------
(* Properties of the similarity functions *)

\* the number of facet sets of the call
SimN == Len(simFacetSets)

\* C13: the matrix of buildDistanceMatrix over n facet sets has n rows of n
\* entries, 0 on the diagonal (for an empty facet set too), the same entry at
\* (i, j) and (j, i), and every entry from 0 to 1
C13_DistanceMatrixShape ==
    simReturn.call = "buildDistanceMatrix" =>
        /\ Len(simReturn.value) = SimN
        /\ \A i \in 1..SimN :
              /\ Len(simReturn.value[i]) = SimN
              /\ simReturn.value[i][i] = RZero
              /\ \A j \in 1..SimN :
                    /\ simReturn.value[i][j] = simReturn.value[j][i]
                    /\ ~RLess(simReturn.value[i][j], RZero)
                    /\ ~RLess(ROne, simReturn.value[i][j])

\* a matrix over an empty facet set, two equal nonempty ones and one that
\* shares a part with them: entries 0 off the diagonal, 1 and between
C13_Witness_EmptyEqualAndPartial ==
    /\ simReturn.call = "buildDistanceMatrix"
    /\ SimN = 4
    /\ simFacetSets[1] = {}
    /\ simFacetSets[2] = simFacetSets[3] /\ simFacetSets[2] # {}
    /\ simReturn.value[1][1] = RZero
    /\ simReturn.value[1][2] = ROne
    /\ simReturn.value[2][3] = RZero
    /\ RLess(RZero, simReturn.value[3][4]) /\ RLess(simReturn.value[3][4], ROne)

\* C14: jaccardDistance(a, b) is 1 - |a \cap b| / |a \cup b| when one of the
\* sets has a member (2/3 for two sets of two that share one), is 1 when both
\* are empty, and is the same for (b, a)
C14_JaccardDistanceFormula ==
    simReturn.call = "jaccardDistance" =>
        /\ (simReturn.a # {} \/ simReturn.b # {}) =>
              /\ simReturn.value.num * Cardinality(simReturn.a \cup simReturn.b) =
                   (Cardinality(simReturn.a \cup simReturn.b)
                       - Cardinality(simReturn.a \cap simReturn.b)) * simReturn.value.den
              /\ simReturn.value.den > 0
        /\ (Cardinality(simReturn.a) = 2 /\ Cardinality(simReturn.b) = 2
              /\ Cardinality(simReturn.a \cap simReturn.b) = 1) =>
              simReturn.value = [num |-> 2, den |-> 3]
        /\ (simReturn.a = {} /\ simReturn.b = {}) => simReturn.value = ROne
        /\ simReturn.value = simReturn.swapped

\* the distance 2/3 of two sets of two that share one token
C14_Witness_TwoThirds ==
    /\ simReturn.call = "jaccardDistance"
    /\ Cardinality(simReturn.a) = 2 /\ Cardinality(simReturn.b) = 2
    /\ Cardinality(simReturn.a \cap simReturn.b) = 1
    /\ simReturn.value = [num |-> 2, den |-> 3]

-----------------------------------------------------------------------------
(* Properties of cutDendrogram *)

\* the smaller of two numbers
Min(a, b) == IF a < b THEN a ELSE b

\* C20: for the dendrogram of n items and a k of 1 or more, cutDendrogram
\* returns min(k, n) member lists, none of them empty, no index in two of them
\* or twice in one, all n indices in them (so fewer than k lists only when k
\* is above n); for a nil root or a k of 0 or less it returns no list
C20_CutGivesMinKNLists ==
    simReturn.call = "cutDendrogram" =>
        /\ (~simReturn.rootIsNil /\ simReturn.k >= 1) =>
              /\ Len(simReturn.value) = Min(simReturn.k, SimN)
              /\ \A c \in 1..Len(simReturn.value) : Len(simReturn.value[c]) >= 1
              /\ \A i \in 1..SimN :
                    SumSeq([c \in 1..Len(simReturn.value) |->
                               Occurrences(simReturn.value[c], i)]) = 1
              /\ \A c \in 1..Len(simReturn.value) :
                    SeqToSet(simReturn.value[c]) \subseteq 1..SimN
              /\ (Len(simReturn.value) < simReturn.k) => simReturn.k > SimN
        /\ (simReturn.rootIsNil \/ simReturn.k <= 0) => Len(simReturn.value) = 0

\* a cut at 3 of four items of which two pairs are at distance 0: three lists,
\* one of them of two items
C20_Witness_ThreeOfFourWithTies ==
    /\ simReturn.call = "cutDendrogram"
    /\ SimN = 4
    /\ simFacetSets[1] = simFacetSets[2] /\ simFacetSets[1] # {}
    /\ simFacetSets[3] = simFacetSets[4] /\ simFacetSets[3] # {}
    /\ simFacetSets[1] # simFacetSets[3]
    /\ simReturn.k = 3
    /\ Len(simReturn.value) = 3
    /\ \E c \in 1..3 : Len(simReturn.value[c]) = 2

-----------------------------------------------------------------------------
(* Determinism of ProcessCluster *)

\* the enumeration of the facet names and of the facet values in sorted order
SortedOrder == [nr |-> 0, nrev |-> FALSE, vr |-> 0, vrev |-> FALSE]

\* C15: ProcessCluster returns the same groups (rule, name, members) for the
\* same items whatever order the maps of facet names and of facet values are
\* enumerated in during the fit: every fit gives the groups of the fit that
\* enumerates both in sorted order
C15_FitSameInEveryOrder ==
    [][pc = "fit" =>
          groups' = fitAndReassign(groups, extractFacetSets(algoliaResults), SortedOrder)]_vars

-----------------------------------------------------------------------------
(* The count ProcessCluster returns *)

\* C17: the ClusterCount of the result of ProcessCluster is the k that
\* selectOptimalK returned for the input
C17_ClusterCountIsSelectedK ==
    (pc = "done" /\ clusterResult.returned /\ optimalK >= 2) =>
        clusterResult.ClusterCount = optimalK

-----------------------------------------------------------------------------
(* The choice of selectOptimalK *)

\* the highest k that selectOptimalK evaluates for n items: min(6, n-1), 2 at least
HighestK(n) == IF Min(6, n - 1) < 2 THEN 2 ELSE Min(6, n - 1)

\* the assignments of the cut at k of the dendrogram of the input
AssignmentsOfCut(k) ==
    LET distMatrix == buildDistanceMatrix(extractFacetSets(algoliaResults))
    IN  clustersToAssignments(cutDendrogram(agglomerativeCluster(distMatrix), k),
                              Len(distMatrix))

\* C19: selectOptimalK scores every k from 2 to min(6, n-1) (k = 2 at least)
\* and returns the k of the highest score, the smallest such k when several
\* have it, with the assignments of the cut at that k
C19_SmallestKOfHighestScore ==
    pc = "assemble" =>
        /\ DOMAIN silhouetteScores = 2..HighestK(Len(algoliaResults.Hits))
        /\ optimalK \in DOMAIN silhouetteScores
        /\ \A k \in DOMAIN silhouetteScores :
              /\ ~RLess(silhouetteScores[optimalK], silhouetteScores[k])
              /\ k < optimalK => RLess(silhouetteScores[k], silhouetteScores[optimalK])
        /\ clusterAssignments = AssignmentsOfCut(optimalK)

\* five values of k scored, the chosen one with a score that a higher k
\* reaches too
C19_Witness_TieTakesSmallest ==
    /\ pc = "assemble"
    /\ DOMAIN silhouetteScores = 2..6
    /\ \E k \in DOMAIN silhouetteScores :
          k > optimalK /\ silhouetteScores[k] = silhouetteScores[optimalK]

-----------------------------------------------------------------------------
(* The Other group of ProcessRipper *)

\* the items of the groups ProcessRipper returned
RipperGrouped == UNION { SeqToSet(ripperResult.Groups[g].Items) : g \in 1..Len(ripperResult.Groups) }

\* hit i lists the value under the facet name
Carries(i, facetName, value) == value \in SeqToSet(hitValues(algoliaResults.Hits[i], facetName))

\* C18: the Other group ProcessRipper returns holds the items that are in no
\* group, each once and no other item, and no item of it lists the facet
\* value of a returned group under the facet name of that group
C18_RipperOtherIsUnassigned ==
    (pc = "done" /\ ripperResult.returned) =>
        /\ SeqToSet(ripperResult.OtherGroup) = (1..Len(algoliaResults.Hits)) \ RipperGrouped
        /\ \A i \in SeqToSet(ripperResult.OtherGroup) :
              /\ Occurrences(ripperResult.OtherGroup, i) = 1
              /\ \A g \in 1..Len(ripperResult.Groups) :
                    ~Carries(i, ripperResult.Groups[g].FacetName, ripperResult.Groups[g].FacetValue)

\* a result with a group and an item in Other that has another value of the
\* facet of the group
C18_Witness_OtherWithSameFacet ==
    /\ pc = "done"
    /\ ripperResult.returned
    /\ Len(ripperResult.Groups) >= 1
    /\ \E i \in SeqToSet(ripperResult.OtherGroup) :
          hitValues(algoliaResults.Hits[i], ripperResult.Groups[1].FacetName) # << >>

-----------------------------------------------------------------------------
(* Properties of the naming step *)

\* the result received for the cluster at index i
ReceivedFor(i) == CHOOSE r \in SeqToSet(labelReceived) : r.index = i

\* C16: when the generation of the label of a cluster fails, by error or by
\* timeout, the cluster keeps the name it had, and every cluster whose
\* generation succeeded gets its generated name: the batch does not fail
C16_FailedLabelKeepsName ==
    [][pc = "assign" =>
          \A i \in 1..Len(groupNames) :
             groupNames'[i] = IF ReceivedFor(i).err # "nil" THEN groupNames[i]
                              ELSE ReceivedFor(i).name]_vars

-----------------------------------------------------------------------------
(* Matches against the emitted filter *)

\* C30: for every rule, one with a clause without values too, and every
\* facet set, Matches is true exactly when every group of the filter of
\* ToAlgoliaFilter has a string that is a token of the facet set
C30_MatchesAgreesWithFilter ==
    ruleReturn.call = "MatchesAndToAlgoliaFilter" =>
        ruleReturn.matches =
            (\A g \in 1..Len(ruleReturn.filter) :
                \E x \in 1..Len(ruleReturn.filter[g]) : ruleReturn.filter[g][x] \in facetSetArg)

-----------------------------------------------------------------------------
(* Properties of the dendrogram *)

\* the partition a list of member lists stands for
PartitionOf(lists) == { SeqToSet(lists[c]) : c \in 1..Len(lists) }

C21_CutIsActiveClustersAtK ==
    simReturn.call = "agglomerativeCluster" =>
        PartitionOf(simReturn.cut) = PartitionOf(simReturn.history[SimN - simReturn.k + 1])

-----------------------------------------------------------------------------
(* The edge cases of fitDecisionList *)

\* no item of the corpus of the fit has a facet token
CorpusWithoutTokens == \A i \in 1..Len(fitCorpus) : fitCorpus[i] = {}

\* C24: fitDecisionList returns a rule without clauses and a precision, a
\* recall and an F1 of 0 when the positive set is empty, and also when the
\* positive set is not empty and no item of the corpus has a facet token
C24_EmptyFitAllZero ==
    (fitResult.returned /\ (Len(fitPositives) = 0 \/ CorpusWithoutTokens)) =>
        /\ Len(fitResult.rule.Clauses) = 0
        /\ fitResult.quality.Precision = RZero
        /\ fitResult.quality.Recall = RZero
        /\ fitResult.quality.F1 = RZero

-----------------------------------------------------------------------------
(* The later clauses of a fitted rule *)

\* the rule of the first j clauses of the fitted rule
RulePrefix(j) == DecisionList(SubSeq(fitResult.rule.Clauses, 1, j))

PrefixRecall(j) == computeRecall(RulePrefix(j), fitPositives, fitCorpus)
PrefixPrecision(j) == computePrecision(RulePrefix(j), fitPositives, fitCorpus)

-----------------------------------------------------------------------------
(* Membership by rule *)

\* the items of the corpus that the rule matches, in corpus order
MatchingItems(rule) ==
    SelectSeq([i \in 1..Len(algoliaResults.Hits) |-> i],
              LAMBDA i : Matches(rule, extractFacetSets(algoliaResults)[i]))

\* C23: after fitAndReassign the items of a returned group are the items of
\* the corpus, of whatever cluster or of Other, that the rule of the group
\* matches, in corpus order; an item that several rules match is in each of
\* their groups, and the group of a rule without clauses holds every item
C23_MembersAreRuleMatches ==
    (pc = "done" /\ clusterResult.returned) =>
        \A g \in 1..Len(clusterResult.Groups) :
           /\ clusterResult.Groups[g].Items = MatchingItems(clusterResult.Groups[g].Rule)
           /\ \A i \in 1..Len(algoliaResults.Hits) :
                 Matches(clusterResult.Groups[g].Rule, extractFacetSets(algoliaResults)[i])
                    => Occurrences(clusterResult.Groups[g].Items, i) = 1
           /\ Len(clusterResult.Groups[g].Rule.Clauses) = 0 =>
                 clusterResult.Groups[g].Items = [i \in 1..Len(algoliaResults.Hits) |-> i]

\* two groups with rules of one clause or more that share an item
C23_Witness_ItemInTwoGroups ==
    /\ pc = "done"
    /\ clusterResult.returned
    /\ \E g, h \in 1..Len(clusterResult.Groups) :
          /\ g # h
          /\ Len(clusterResult.Groups[g].Rule.Clauses) >= 1
          /\ Len(clusterResult.Groups[h].Rule.Clauses) >= 1
          /\ SeqToSet(clusterResult.Groups[g].Items) \cap SeqToSet(clusterResult.Groups[h].Items) # {}

-----------------------------------------------------------------------------
(* The batch of GenerateClusterNames *)

\* GenerateClusterNames has returned: one name per cluster, the name at index
\* i that of the request for cluster i or, if that request failed, "Cluster i"
NamesByIndex ==
    pc = "assign" =>
        /\ Len(labelResults) = Len(groupNames)
        /\ Len(labelReceived) = Len(groupNames)
        /\ \A i \in 1..Len(groupNames) :
              /\ Cardinality({ x \in 1..Len(labelReceived) : labelReceived[x].index = i }) = 1
              /\ labelResults[i] = IF ReceivedFor(i).err = "nil" THEN ReceivedFor(i).name
                                   ELSE StrClusterPrefix \o DecimalString(i)

\* C26: GenerateClusterNames returns one name per cluster, the name for
\* cluster i at index i, in whatever order the requests end and whichever of
\* them fail, and once every request has ended it returns, with no error of
\* the batch
C26_BatchReturnsNamesByIndex ==
    /\ []NamesByIndex
    /\ (pc = "collect" /\ goroutines = {}) ~> (pc = "assign")

\* three results received in another order than that of the clusters, of
\* which one is a failure and two are names
C26_Witness_MixedOutOfOrder ==
    /\ pc = "assign"
    /\ Len(labelReceived) = 3
    /\ labelReceived[1].index = 3 /\ labelReceived[2].index = 1
    /\ labelReceived[1].err # "nil"
    /\ labelReceived[2].err = "nil" /\ labelReceived[3].err = "nil"

-----------------------------------------------------------------------------
(* The selection of ProcessRipper *)

\* the facet map of the input and the unassigned items of the running loop
RipperMap == facetValueMap(algoliaResults.Hits)
RipperPairs == { <<f, v>> : f \in DOMAIN RipperMap, v \in UNION { DOMAIN RipperMap[g] : g \in DOMAIN RipperMap } }

\* the count of a pair among the unassigned items
UnassignedCount(pair) ==
    Len(SelectSeq(RipperMap[pair[1]][pair[2]], LAMBDA idx : idx \notin assignedItems))

\* the pairs the scan may select: not selected before, of the minimum size at
\* least, with a gain that is a number
EligiblePairs ==
    { pair \in RipperPairs :
        /\ pair[2] \in DOMAIN RipperMap[pair[1]]
        /\ pair \notin selectedFacetValues
        /\ UnassignedCount(pair) >= minGroupSize(Len(algoliaResults.Hits))
        /\ ~GainIsNaN(UnassignedCount(pair), RipperUnassigned) }

\* pair a goes before pair b: higher gain, then larger count, then smaller string
GoesBefore(a, b) ==
    \/ Gain(UnassignedCount(a), RipperUnassigned) > Gain(UnassignedCount(b), RipperUnassigned)
    \/ /\ Gain(UnassignedCount(a), RipperUnassigned) = Gain(UnassignedCount(b), RipperUnassigned)
       /\ \/ UnassignedCount(a) > UnassignedCount(b)
          \/ /\ UnassignedCount(a) = UnassignedCount(b)
             /\ StrLess(a[1] \o <<58>> \o a[2], b[1] \o <<58>> \o b[2])

-----------------------------------------------------------------------------
(* The counts and the members of the groups of ProcessRipper *)

\* the input carries a count of the value of the facet
HasSuppliedCount(facetName, value) ==
    /\ ~algoliaResults.Facets.isNil
    /\ facetName \in DOMAIN algoliaResults.Facets.m
    /\ value \in DOMAIN algoliaResults.Facets.m[facetName]

\* the items of the input that hold the value of the facet
Holders(facetName, value) ==
    { i \in 1..Len(algoliaResults.Hits) : Carries(i, facetName, value) }

\* C27: the TotalCount of a group ProcessRipper returns is the count the input
\* supplies for the facet value when it supplies one, and otherwise the number
\* of items of the input that hold the value, those of earlier groups too,
\* which is never below the number of items of the group
C27_TotalCountSuppliedOrHolders ==
    (pc = "done" /\ ripperResult.returned) =>
        \A g \in 1..Len(ripperResult.Groups) :
           LET group == ripperResult.Groups[g]
           IN  IF HasSuppliedCount(group.FacetName, group.FacetValue)
               THEN group.TotalCount = algoliaResults.Facets.m[group.FacetName][group.FacetValue]
               ELSE /\ group.TotalCount = Cardinality(Holders(group.FacetName, group.FacetValue))
                    /\ group.TotalCount >= Len(group.Items)

\* the items of the groups returned before group g
EarlierItems(g) == UNION { SeqToSet(ripperResult.Groups[h].Items) : h \in 1..(g - 1) }

\* C28: every item of a group ProcessRipper returns holds the facet value of
\* the group, no two groups have the same facet name and value, and a group
\* holds every item that holds its value and was in no earlier group
C28_GroupsHoldTheirValue ==
    (pc = "done" /\ ripperResult.returned) =>
        \A g \in 1..Len(ripperResult.Groups) :
           /\ SeqToSet(ripperResult.Groups[g].Items) \subseteq
                 Holders(ripperResult.Groups[g].FacetName, ripperResult.Groups[g].FacetValue)
           /\ (Holders(ripperResult.Groups[g].FacetName, ripperResult.Groups[g].FacetValue)
                  \ EarlierItems(g)) \subseteq SeqToSet(ripperResult.Groups[g].Items)
           /\ \A h \in 1..Len(ripperResult.Groups) :
                 h # g => <<ripperResult.Groups[h].FacetName, ripperResult.Groups[h].FacetValue>>
                          # <<ripperResult.Groups[g].FacetName, ripperResult.Groups[g].FacetValue>>

\* a second group of which an item that holds its value is in the first group
C28_Witness_HolderInEarlierGroup ==
    /\ pc = "done"
    /\ ripperResult.returned
    /\ Len(ripperResult.Groups) >= 2
    /\ Holders(ripperResult.Groups[2].FacetName, ripperResult.Groups[2].FacetValue)
          \cap SeqToSet(ripperResult.Groups[1].Items) # {}

=============================================================================
